---- MODULE Spec2Model ----
(***************************************************************************)
(* PMPPT: the agent's request dispatch and resource teardown               *)
(* (src/src/agent.rs) and the controller's staged scheduler                *)
(* (src/src/controller.rs, src/src/controller/activity.rs).                *)
(***************************************************************************)
EXTENDS Integers, Sequences, FiniteSets, TLC

VARIABLES
    agent,   \* per agent: the fields of Agent (count, polls, procs), its session state and trace
    ctl,     \* the main thread of controller::run: phase, stage order and position, result
    worker,  \* per agent: the worker thread of the current stage
    lock,    \* per agent: the mutex around its connection; and whether the store's mutex is held
    chan,    \* per agent: requests and responses in flight, controller side open or dropped
    wire,    \* per agent: what the controller sent and received on the connection, in order
    act,     \* per activity of the runtime: the Id stored by start and the launcher's args
    store,   \* the artifact store: its map and whether its mutex is poisoned
    hist,    \* activities whose start/stop has been called and has returned Ok
    fs,      \* per agent: the out.map file in the controller's output directory
    call,    \* the last call of a library function exercised on its own, and its result
    thread,  \* a poller thread: its position, its stop flag and its output file
    proto    \* the SelfHostedProtocol of an agent run from a script

ctlvars == <<ctl, worker, lock, chan, wire, act, store, hist, fs, call, thread, proto>>

vars == <<agent, ctl, worker, lock, chan, wire, act, store, hist, fs, call, thread, proto>>

nonproto == <<agent, ctl, worker, lock, chan, wire, act, store, hist, fs, call, thread>>

nonthread == <<agent, ctl, worker, lock, chan, wire, act, store, hist, fs, call, proto>>

----------------------------------------------------------------------------
(* Bounds *)

\* requests one peer sends to the agent in a session of SpecAgent
MaxReq == 3
\* environment faults (a poller thread dying, a child handle breaking) per session
MaxFaults == 1
\* records a poller thread writes before its stop flag has to be set
MaxRecords == 2

\* the longest script of a selfhosted agent
MaxScript == 3

----------------------------------------------------------------------------
(* Protocol vocabulary: src/src/common/communication.rs *)

Agents == {"a1", "a2"}

\* the key of the artifact store's mutex among the locks
StoreMutex == "stor"

SpawnMode == {"Foreground", "BackgroundWait", "BackgroundKill"}

\* patterns a peer may send; brace_expand and glob are external crates, given
\* here by their results on a fixed file system holding /p/x and /p/y only
Patterns == {"/p/{x,y}", "/p/{x,n}"}

brace_expand(pattern) ==
    CASE pattern = "/p/{x,y}" -> <<"/p/x", "/p/y">>
      [] pattern = "/p/{x,n}" -> <<"/p/x", "/p/n">>
      [] pattern = "/p/{n,x}" -> <<"/p/n", "/p/x">>
      [] pattern = "/p/{y,x}" -> <<"/p/y", "/p/x">>
      [] pattern = "/p/{*,x}" -> <<"/p/*", "/p/x">>
      [] pattern = "/p/{n,m}" -> <<"/p/n", "/p/m">>
      [] pattern = "/p/{x,n,y}" -> <<"/p/x", "/p/n", "/p/y">>
      [] OTHER -> <<pattern>>

glob(part) ==
    CASE part = "/p/x" -> <<"/p/x">>
      [] part = "/p/y" -> <<"/p/y">>
      [] part = "/p/*" -> <<"/p/x", "/p/y">>
      [] OTHER -> <<>>

Req(tag, id, arg) == [tag |-> tag, id |-> id, arg |-> arg]

\* one entry of the agent's trace: a request received, a response sent, a
\* step of stopping a resource (flag/join, signal/wait), or a panic
Ev(ev, tag, ok, id, arg) == [ev |-> ev, tag |-> tag, ok |-> ok, id |-> id, arg |-> arg]

EmptyMap == [i \in {} |-> 0]

Remove(map, id) == [i \in (DOMAIN map) \ {id} |-> map[i]]

----------------------------------------------------------------------------
(* Agent: src/src/agent.rs *)

\* the implicit stop-all after the loop of serve, when it is followed call by
\* call: ids: the Ids the loop of stop_all has still to visit; waiting: the Id
\* whose join() or wait() the thread is blocked in (0: none); fate: whether
\* that call returns ("returns") or never does ("blocks")
NoTeardown == [ids |-> <<>>, abnormal |-> FALSE, waiting |-> 0, fate |-> ""]

\* Agent::new
NewAgent ==
    [count |-> 0, polls |-> EmptyMap, procs |-> EmptyMap, st |-> "active", log |-> <<>>,
     td |-> NoTeardown]

Log(ag, e) == [ag EXCEPT !.log = Append(@, e)]

\* a panic of the dispatch thread: the session is over, nothing more is sent
\* and the resources still in the maps are never stopped
Panic(ag) == [Log(ag, Ev("panic", "", FALSE, 0, "")) EXCEPT !.st = "panicked"]

\* data: the paths of a LookupPaths answer, <<>> otherwise
send_response(ag, tag, ok, id, data) == Log(ag, Ev("resp", tag, ok, id, data))

\* a local operation of the agent failed: "io_err" (a log file or the data
\* directory of resource id cannot be created) or "launch_err" (the command
\* cannot be started)
Failed(ag, what, id) == Log(ag, Ev("fail", what, FALSE, id, ""))

\* the counter is used before it is incremented
get_next_id_stale(ag) == ag

\* the counter is set instead of incremented
get_next_id_fixed(ag) == [ag EXCEPT !.count = 1]

\* count is a u32; sessions here stay far below its limit
get_next_id(ag) == [ag EXCEPT !.count = @ + 1]

spawn_poller(ag) ==
    LET a1 == get_next_id(ag)
        id == a1.count
    IN  IF id \in DOMAIN a1.polls
        THEN [ag |-> Panic(a1), ok |-> FALSE, id |-> 0]
        ELSE [ag |-> [a1 EXCEPT !.polls = @ @@ (id :> [dead |-> FALSE])],
              ok |-> TRUE, id |-> id]

\* out: what the operating system does with the launch: "ok", "launch_err"
\* (the command cannot be started) or "io_err" (a log file or the data
\* directory cannot be created, which the code unwraps)
\* the process is started, entered in procs and not waited for
spawn_process_foreground_detached(ag, out) ==
    LET a1 == get_next_id(ag)
        id == a1.count
    IN  CASE out = "io_err" -> [ag |-> Panic(Failed(a1, out, id)), ok |-> FALSE, id |-> 0]
          [] out = "launch_err" -> [ag |-> Failed(a1, out, id), ok |-> FALSE, id |-> 0]
          [] OTHER ->
               [ag |-> [a1 EXCEPT !.procs = @ @@ (id :> [wait4 |-> TRUE, broken |-> FALSE])],
                ok |-> TRUE, id |-> id]

\* cmd.join() starts the process and returns when it has exited ("exit")
spawn_process_foreground(ag, out) ==
    LET a1 == get_next_id(ag)
        id == a1.count
    IN  CASE out = "io_err" -> [ag |-> Panic(Failed(a1, out, id)), ok |-> FALSE, id |-> 0]
          [] out = "launch_err" -> [ag |-> Failed(a1, out, id), ok |-> FALSE, id |-> 0]
          [] OTHER -> [ag |-> Log(a1, Ev("exit", "", TRUE, id, "")), ok |-> TRUE, id |-> id]

spawn_process_background(ag, wait4, out) ==
    LET a1 == get_next_id(ag)
        id == a1.count
    IN  CASE out = "io_err" -> [ag |-> Panic(Failed(a1, out, id)), ok |-> FALSE, id |-> 0]
          [] out = "launch_err" -> [ag |-> Failed(a1, out, id), ok |-> FALSE, id |-> 0]
          [] id \in DOMAIN a1.procs -> [ag |-> Panic(a1), ok |-> FALSE, id |-> 0]
          [] OTHER ->
               [ag |-> [a1 EXCEPT !.procs = @ @@ (id :> [wait4 |-> wait4, broken |-> FALSE])],
                ok |-> TRUE, id |-> id]

spawn_process(ag, mode, out) ==
    LET r == CASE mode = "Foreground" -> spawn_process_foreground(ag, out)
               [] mode = "BackgroundWait" -> spawn_process_background(ag, TRUE, out)
               [] OTHER -> spawn_process_background(ag, FALSE, out)
        tag == IF mode = "Foreground" THEN "SpawnFg" ELSE "SpawnBg"
    IN  IF r.ag.st = "panicked" THEN r.ag ELSE send_response(r.ag, tag, r.ok, r.id, <<>>)

\* an expansion that matches nothing is passed over
RECURSIVE lookup_parts_skip(_, _)
lookup_parts_skip(parts, paths) ==
    IF parts = <<>> THEN [ok |-> paths # <<>>, paths |-> paths, bad |-> ""]
    ELSE lookup_parts_skip(Tail(parts), paths \o glob(Head(parts)))

\* the loop of Agent::lookup_paths over the expansions still to do; bad: the
\* expansion the error message names
RECURSIVE lookup_parts(_, _)
lookup_parts(parts, paths) ==
    IF parts = <<>> THEN [ok |-> paths # <<>>, paths |-> paths, bad |-> ""]
    ELSE LET ps == glob(Head(parts))
             new == paths \o ps
         IN  IF Len(new) = Len(paths)
             THEN [ok |-> FALSE, paths |-> <<>>, bad |-> Head(parts)]
             ELSE lookup_parts(Tail(parts), new)

lookup_paths(pattern) == lookup_parts(brace_expand(pattern), <<>>)

\* the flag is set and the thread is left to end on its own
stop_poller_detach(ag, id, poll) == Log(ag, Ev("flag", "", TRUE, id, ""))

stop_poller(ag, id, poll) ==
    LET flagged == Log(ag, Ev("flag", "", TRUE, id, ""))
    IN  IF poll.dead THEN Panic(flagged)
        ELSE Log(flagged, Ev("join", "", TRUE, id, ""))

\* the force flag is ignored
should_terminate_noforce(wait4, force) == ~wait4

should_terminate(wait4, force) == ~wait4 \/ force

stop_process(ag, id, proc, force) ==
    LET sig == IF should_terminate(proc.wait4, force)
               THEN Log(ag, Ev("signal", "", TRUE, id, ""))
               ELSE ag
    IN  IF proc.broken THEN Panic(sig)
        ELSE Log(sig, Ev("wait", "", TRUE, id, ""))

RECURSIVE Descending(_)
Descending(n) == IF n = 0 THEN <<>> ELSE <<n>> \o Descending(n - 1)

\* the range is walked without rev()
stop_order_forward(count) == [i \in 1..count |-> i]

\* (1..=self.count).rev()
stop_order(count) == Descending(count)

RECURSIVE stop_all_loop(_, _, _)
stop_all_loop(ag, ids, abnormal) ==
    IF ids = <<>> \/ ag.st = "panicked" THEN ag
    ELSE LET id == Head(ids)
             inProc == id \in DOMAIN ag.procs
             inPoll == id \in DOMAIN ag.polls
             removed == [ag EXCEPT !.procs = Remove(@, id), !.polls = Remove(@, id)]
             next == CASE inProc /\ ~inPoll -> stop_process(removed, id, ag.procs[id], abnormal)
                       [] ~inProc /\ inPoll -> stop_poller(removed, id, ag.polls[id])
                       [] ~inProc /\ ~inPoll -> removed
                       [] OTHER -> Panic(removed)
         IN  stop_all_loop(next, Tail(ids), abnormal)

stop_all(ag, abnormal, from_stopall) ==
    LET done == stop_all_loop(ag, stop_order(ag.count), abnormal)
    IN  CASE done.st = "panicked" -> done
          [] DOMAIN done.polls # {} \/ DOMAIN done.procs # {} -> Panic(done)
          [] from_stopall -> send_response(done, "StopAll", TRUE, 0, <<>>)
          [] OTHER -> done

\* an unknown id is treated as a broken invariant
stop_task_fatal(ag, id) ==
    LET inProc == id \in DOMAIN ag.procs
        inPoll == id \in DOMAIN ag.polls
        removed == [ag EXCEPT !.procs = Remove(@, id), !.polls = Remove(@, id)]
        next == CASE inProc /\ ~inPoll -> stop_process(removed, id, ag.procs[id], FALSE)
                  [] ~inProc /\ inPoll -> stop_poller(removed, id, ag.polls[id])
                  [] OTHER -> Panic(removed)
    IN  IF next.st = "panicked" THEN next
        ELSE send_response(next, "Stop", TRUE, id, <<>>)

stop_task(ag, id) ==
    LET inProc == id \in DOMAIN ag.procs
        inPoll == id \in DOMAIN ag.polls
        removed == [ag EXCEPT !.procs = Remove(@, id), !.polls = Remove(@, id)]
        next == CASE inProc /\ ~inPoll -> stop_process(removed, id, ag.procs[id], FALSE)
                  [] ~inProc /\ inPoll -> stop_poller(removed, id, ag.polls[id])
                  [] ~inProc /\ ~inPoll -> send_response(removed, "Stop", FALSE, 0, <<>>)
                  [] OTHER -> Panic(removed)
    IN  IF next.st = "panicked" \/ (~inProc /\ ~inPoll) THEN next
        ELSE send_response(next, "Stop", TRUE, id, <<>>)

\* the two emptiness assertions are missing
collect_data_unchecked(ag, out) == send_response(ag, "Collect", out # "tar_err", 0, <<>>)

\* out: "ok", or "tar_err" when the archiver cannot be run
collect_data(ag, out) ==
    IF DOMAIN ag.polls # {} \/ DOMAIN ag.procs # {} THEN Panic(ag)
    ELSE send_response(ag, "Collect", out # "tar_err", 0, <<>>)

handle_message(ag, msg, out) ==
    CASE msg.tag = "LookupPaths" ->
           send_response(ag, "LookupPaths", lookup_paths(msg.arg).ok, 0, lookup_paths(msg.arg).paths)
      [] msg.tag = "Poll" ->
           IF lookup_paths(msg.arg).ok
           THEN LET r == spawn_poller(ag)
                IN  IF r.ag.st = "panicked" THEN r.ag
                    ELSE send_response(r.ag, "Poll", r.ok, r.id, <<>>)
           ELSE send_response(ag, "Poll", FALSE, 0, <<>>)
      [] msg.tag = "Spawn" -> spawn_process(ag, msg.arg, out)
      [] msg.tag = "Stop" -> stop_task(ag, msg.id)
      [] msg.tag = "StopAll" -> stop_all(ag, FALSE, TRUE)
      [] msg.tag = "Collect" -> collect_data(ag, out)
      [] OTHER -> Panic(ag)

Closed(ag) == IF ag.st = "panicked" THEN ag ELSE [ag EXCEPT !.st = "closed"]

\* every way out of the loop is taken for a graceful one
is_abnormal_never(tag) == FALSE

\* is_abnormal of serve: the loop breaks with true on a failed receive and on Abort
is_abnormal(tag) == tag \in {"None", "Abort"}

\* one iteration of the loop of Agent::serve on the request msg (tag "None":
\* recv_request returned None), including the stop_all that follows the loop
serve(ag, msg, out) ==
    LET got == Log(ag, Ev("recv", msg.tag, TRUE, msg.id, msg.arg))
    IN  IF msg.tag \in {"None", "Abort", "End"}
        THEN Closed(stop_all(got, is_abnormal(msg.tag), FALSE))
        ELSE handle_message(got, msg, out)

----------------------------------------------------------------------------
(* An agent session driven by an arbitrary peer *)

Solo == "a1"

NumRecv(log) == Cardinality({i \in 1..Len(log) : log[i].ev = "recv"})

NumFaults(ag) ==
    Cardinality({i \in DOMAIN ag.polls : ag.polls[i].dead})
    + Cardinality({i \in DOMAIN ag.procs : ag.procs[i].broken})

CanServe(a) == agent[a].st = "active" /\ NumRecv(agent[a].log) < MaxReq

Serve(a, msg, out) ==
    /\ agent' = [agent EXCEPT ![a] = serve(@, msg, out)]
    /\ UNCHANGED ctlvars

ServeLookupPaths(a) ==
    /\ CanServe(a)
    /\ \E p \in Patterns : Serve(a, Req("LookupPaths", 0, p), "ok")

ServePoll(a) ==
    /\ CanServe(a)
    /\ \E p \in Patterns : Serve(a, Req("Poll", 0, p), "ok")

ServeSpawn(a) ==
    /\ CanServe(a)
    /\ \E m \in SpawnMode, out \in {"ok", "launch_err", "io_err"} :
          Serve(a, Req("Spawn", 0, m), out)

ServeStop(a) ==
    /\ CanServe(a)
    /\ \E id \in 1..(agent[a].count + 1) : Serve(a, Req("Stop", id, ""), "ok")

ServeStopAll(a) ==
    /\ CanServe(a)
    /\ Serve(a, Req("StopAll", 0, ""), "ok")

ServeCollect(a) ==
    /\ CanServe(a)
    /\ \E out \in {"ok", "tar_err"} : Serve(a, Req("Collect", 0, ""), out)

ServeEnd(a) ==
    /\ agent[a].st = "active"
    /\ Serve(a, Req("End", 0, ""), "ok")

ServeAbort(a) ==
    /\ agent[a].st = "active"
    /\ Serve(a, Req("Abort", 0, ""), "ok")

ServeRecvFail(a) ==
    /\ agent[a].st = "active"
    /\ Serve(a, Req("None", 0, ""), "ok")

\* a poller thread panics on a read error (src/src/agent/poller.rs)
PollerDies(a) ==
    /\ agent[a].st = "active"
    /\ NumFaults(agent[a]) < MaxFaults
    /\ \E id \in DOMAIN agent[a].polls :
          /\ ~agent[a].polls[id].dead
          /\ agent' = [agent EXCEPT ![a].polls[id].dead = TRUE]
    /\ UNCHANGED ctlvars

\* the child handle of a process stops answering terminate/wait
ProcBreaks(a) ==
    /\ agent[a].st = "active"
    /\ NumFaults(agent[a]) < MaxFaults
    /\ \E id \in DOMAIN agent[a].procs :
          /\ ~agent[a].procs[id].broken
          /\ agent' = [agent EXCEPT ![a].procs[id].broken = TRUE]
    /\ UNCHANGED ctlvars

----------------------------------------------------------------------------
(* The end of an agent session, call by call *)

\* the loop of serve breaks on End, Abort or a failed receive and stop_all is
\* entered ("gracing": abnormal is false, "aborting": it is true)
ShutBegin(a, tag) ==
    /\ agent[a].st = "active"
    /\ agent' = [agent EXCEPT ![a] =
                   [Log(@, Ev("recv", tag, TRUE, 0, "")) EXCEPT
                      !.st = IF is_abnormal(tag) THEN "aborting" ELSE "gracing",
                      !.td = [ids |-> stop_order(agent[a].count), abnormal |-> is_abnormal(tag),
                              waiting |-> 0, fate |-> ""]]]
    /\ UNCHANGED ctlvars

\* whether the child exits once stop_process waits for it.  A child that was
\* sent SIGTERM (Popen::terminate) exits unless it catches or ignores the
\* signal; a child that is only waited for is taken to exit on its own
Fates(signalled) == IF signalled THEN {"returns", "blocks"} ELSE {"returns"}

\* one iteration of the loop of stop_all, up to the blocking call of
\* stop_poller (join) or stop_process (wait)
ShutNext(a) ==
    /\ agent[a].st \in {"gracing", "aborting"}
    /\ agent[a].td.waiting = 0
    /\ agent[a].td.ids # <<>>
    /\ LET ag == agent[a]
           id == Head(ag.td.ids)
           inProc == id \in DOMAIN ag.procs
           inPoll == id \in DOMAIN ag.polls
           removed == [ag EXCEPT !.procs = Remove(@, id), !.polls = Remove(@, id),
                                 !.td.ids = Tail(@)]
       IN  CASE inProc /\ ~inPoll ->
                  LET signalled == should_terminate(ag.procs[id].wait4, ag.td.abnormal)
                      sig == IF signalled THEN Log(removed, Ev("signal", "", TRUE, id, ""))
                             ELSE removed
                  IN  IF ag.procs[id].broken
                      THEN agent' = [agent EXCEPT ![a] = Panic(sig)]
                      ELSE \E fate \in Fates(signalled) :
                              agent' = [agent EXCEPT ![a] =
                                          [sig EXCEPT !.td.waiting = id, !.td.fate = fate]]
             [] ~inProc /\ inPoll ->
                  LET flagged == Log(removed, Ev("flag", "", TRUE, id, ""))
                  IN  IF ag.polls[id].dead
                      THEN agent' = [agent EXCEPT ![a] = Panic(flagged)]
                      ELSE agent' = [agent EXCEPT ![a] =
                                       [flagged EXCEPT !.td.waiting = id, !.td.fate = "returns"]]
             [] ~inProc /\ ~inPoll -> agent' = [agent EXCEPT ![a] = removed]
             [] OTHER -> agent' = [agent EXCEPT ![a] = Panic(removed)]
    /\ UNCHANGED ctlvars

\* join() or wait() returns: the poller thread has seen the flag and ended,
\* or the child has exited
ShutReap(a) ==
    /\ agent[a].st \in {"gracing", "aborting"}
    /\ agent[a].td.waiting # 0
    /\ agent[a].td.fate = "returns"
    /\ LET id == agent[a].td.waiting
           ev == IF \E i \in 1..Len(agent[a].log) :
                       agent[a].log[i].ev = "flag" /\ agent[a].log[i].id = id
                 THEN "join" ELSE "wait"
       IN  agent' = [agent EXCEPT ![a] =
                       [Log(@, Ev(ev, "", TRUE, id, "")) EXCEPT !.td.waiting = 0, !.td.fate = ""]]
    /\ UNCHANGED ctlvars

\* the loop of stop_all is over: the two assertions, and serve returns
ShutClose(a) ==
    /\ agent[a].st \in {"gracing", "aborting"}
    /\ agent[a].td.waiting = 0
    /\ agent[a].td.ids = <<>>
    /\ agent' = [agent EXCEPT ![a] =
                   IF DOMAIN @.polls # {} \/ DOMAIN @.procs # {} THEN Panic(@)
                   ELSE [@ EXCEPT !.st = "closed"]]
    /\ UNCHANGED ctlvars

ShutStep(a) == ShutNext(a) \/ ShutReap(a) \/ ShutClose(a)

NextShutdown ==
    \/ ServePoll(Solo)
    \/ ServeSpawn(Solo)
    \/ ProcBreaks(Solo)
    \/ \E tag \in {"End", "Abort", "None"} : ShutBegin(Solo, tag)
    \/ ShutNext(Solo)
    \/ ShutReap(Solo)
    \/ ShutClose(Solo)

----------------------------------------------------------------------------
(* A poller thread: src/src/agent/poller.rs *)

\* the files a poller reads, and what a read of each may return
Srcs == <<"/p/x", "/p/y">>

Contents(src) == IF src = "/p/x" THEN {"x1\n", "x2\n"} ELSE {"y1\n", "y2\n"}

\* the thread as std::thread::spawn creates it; out: the pieces written to
\* the output file, in order; written: the records written so far; at_stop:
\* the value of written when the stop flag was set, -1 while it is not set
NewThread ==
    [pc |-> "spawned", stop |-> FALSE, out |-> <<>>, written |-> 0, at_stop |-> -1]

\* create_header: the JSON of the file names and the period, and a newline
create_header(srcs) == <<"{files,period}", "\n">>

\* to_rfc3339_opts of the time at which iteration n runs
Stamp(n) == <<"t1", "t2", "t3", "t4", "t5">>[n]

\* outbuffer of one iteration: the timestamp line, the content read from
\* every file in the order of srcs, and the final delimiter
Record(n, read) == <<Stamp(n), "\n">> \o read \o <<"\n">>

\* the flag is never looked at
loop_condition_forever(stop) == TRUE

\* while !stop.load(Ordering::Acquire)
loop_condition(stop) == ~stop

\* File::create(dest) and store_header; a failure is a panic of the thread
PollOpen ==
    /\ thread.pc = "spawned"
    /\ \E io \in {"ok", "io_err"} :
          thread' = IF io = "ok"
                    THEN [thread EXCEPT !.pc = "test", !.out = create_header(Srcs)]
                    ELSE [thread EXCEPT !.pc = "panicked"]
    /\ UNCHANGED nonthread

\* the test at the top of the loop; after the loop the file is flushed and
\* the thread returns
PollTest ==
    /\ thread.pc = "test"
    /\ IF loop_condition(thread.stop)
       THEN /\ thread.written < (IF thread.stop THEN MaxRecords + 2 ELSE MaxRecords)
            /\ thread' = [thread EXCEPT !.pc = "iterate"]
       ELSE thread' = [thread EXCEPT !.pc = "done"]
    /\ UNCHANGED nonthread

\* the body of the loop up to write_all: every file is read in order (a
\* failing read panics before anything is written), then the record is
\* written with one write_all
PollIterate ==
    /\ thread.pc = "iterate"
    /\ \/ \E cx \in Contents(Srcs[1]), cy \in Contents(Srcs[2]) :
             thread' = [thread EXCEPT !.pc = "sleep",
                                      !.out = @ \o Record(thread.written + 1, <<cx, cy>>),
                                      !.written = @ + 1]
       \/ thread' = [thread EXCEPT !.pc = "panicked"]
    /\ UNCHANGED nonthread

\* std::thread::sleep(cfg.sleep_time) returns
PollWake ==
    /\ thread.pc = "sleep"
    /\ thread' = [thread EXCEPT !.pc = "test"]
    /\ UNCHANGED nonthread

\* stop_poller of the agent: poll.stop.store(true, Ordering::Release)
SetStop ==
    /\ thread.pc # "spawned"
    /\ ~thread.stop
    /\ thread' = [thread EXCEPT !.stop = TRUE, !.at_stop = thread.written]
    /\ UNCHANGED nonthread

ThreadStep == PollOpen \/ PollTest \/ PollIterate \/ PollWake

NextPoller ==
    \/ PollOpen
    \/ PollTest
    \/ PollIterate
    \/ PollWake
    \/ SetStop

----------------------------------------------------------------------------
(* Controller: src/src/controller.rs and src/src/controller/activity.rs *)

\* hint: Option<String>, <<>> for None and <<h>> for Some(h)
Conf(kind, pattern, mode, in, out, hint) ==
    [kind |-> kind, pattern |-> pattern, mode |-> mode, in |-> in, out |-> out, hint |-> hint]

\* a Runtime as built by create_runtime: the stages in order, and for each
\* stage the chain of every agent taking part
Runtime ==
    << [a1 |-> << Conf("poller", "/p/{x,y}", "", "", "", <<"cpu">>),
                  Conf("launch", "", "BackgroundWait", "", "", <<"bg">>) >>,
        a2 |-> << Conf("lookup_paths", "/p/{x,y}", "", "", "DEVS", <<>>),
                  Conf("iostat", "", "BackgroundKill", "DEVS", "", <<>>) >>],
       [a1 |-> << Conf("sleep", "", "", "", "", <<>>),
                  Conf("launch", "", "Foreground", "", "", <<"fg">>) >>,
        a2 |-> << Conf("poller", "/p/{x,y}", "", "", "", <<>>) >>],
       [a1 |-> << Conf("iostat", "", "BackgroundKill", "DEVS", "", <<>>) >>] >>

NumStages == Len(Runtime)

ActKeys ==
    UNION {UNION {{<<s, a, i>> : i \in 1..Len(Runtime[s][a])} : a \in DOMAIN Runtime[s]} :
             s \in 1..NumStages}

ConfOf(k) == Runtime[k[1]][k[2]][k[3]]

Reverse(seq) == [i \in 1..Len(seq) |-> seq[Len(seq) + 1 - i]]

\* hints: what the stops of this worker's chain have returned so far
IdleWorker == [pc |-> "none", todo |-> <<>>, exc |-> "none", hints |-> <<>>]

\* Storage::default: an empty map behind a mutex
NewStorage == [stor |-> EmptyMap, poisoned |-> FALSE]

\* HashMap::insert
Put(map, key, val) == [k \in (DOMAIN map) \cup {key} |-> IF k = key THEN val ELSE map[k]]

\* the old value is replaced without the assertion
set_overwrite(st, key, val) ==
    IF st.poisoned THEN [st |-> st, ok |-> FALSE]
    ELSE [st |-> [st EXCEPT !.stor = Put(@, key, val)], ok |-> TRUE]

\* Storage::set: lock().unwrap(), insert, then the assertion that the key was
\* new; a panic under the guard poisons the mutex. ok: the call returned
set(st, key, val) ==
    CASE st.poisoned -> [st |-> st, ok |-> FALSE]
      [] key \in DOMAIN st.stor ->
           [st |-> [stor |-> Put(st.stor, key, val), poisoned |-> TRUE], ok |-> FALSE]
      [] OTHER -> [st |-> [st EXCEPT !.stor = Put(@, key, val)], ok |-> TRUE]

\* Storage::get: lock().unwrap(), then a clone of the value or a panic
get(st, key) ==
    CASE st.poisoned -> [st |-> st, ok |-> FALSE, val |-> <<>>]
      [] key \notin DOMAIN st.stor ->
           [st |-> [st EXCEPT !.poisoned = TRUE], ok |-> FALSE, val |-> <<>>]
      [] OTHER -> [st |-> st, ok |-> TRUE, val |-> st.stor[key]]

NoReq == Req("", 0, "")

\* PathBuf::to_string_lossy: the names of the file system modelled here are
\* valid UTF-8, which the conversion returns as they are
to_string_lossy(path) == path

\* what start and stop hand back besides their verdict: the store as they
\* leave it, the launcher's argument list, and the Option<PlotHint> of stop
Local(do, stor, st) == [do |-> do, req |-> NoReq, stor |-> stor, args |-> st.args, hint |-> <<>>]

Sending(req, stor, args) == [do |-> "send", req |-> req, stor |-> stor, args |-> args, hint |-> <<>>]

Result(res, id, stor) == [res |-> res, id |-> id, stor |-> stor, hint |-> <<>>]

\* Some((id, hint)) as pushed by the worker together with the activity name
PlotHint(conf, id) == <<[name |-> conf.kind, id |-> id, hint |-> conf.hint]>>

\* Activity::start up to its first blocking call: finish at once ("ok"),
\* fail at once ("error", "panic"), or send a request and wait for the answer
start_begin(conf, st, stor) ==
    CASE conf.kind = "sleep" -> Local("ok", stor, st)
      [] conf.kind = "poller" -> Sending(Req("Poll", 0, conf.pattern), stor, st.args)
      [] conf.kind = "lookup_paths" -> Sending(Req("LookupPaths", 0, conf.pattern), stor, st.args)
      [] conf.kind = "iostat" /\ conf.in # "" ->
           LET devices == get(stor, conf.in)
           IN  IF devices.ok
               THEN Sending(Req("Spawn", 0, conf.mode), stor, st.args \o devices.val)
               ELSE Local("panic", devices.st, st)
      [] OTHER -> Sending(Req("Spawn", 0, conf.mode), stor, st.args)

\* the stop of a poller does nothing
stop_begin_poller_noop(conf, st, stor) ==
    CASE conf.kind \in {"sleep", "lookup_paths", "poller"} -> Local("ok", stor, st)
      [] OTHER ->
           IF st.id = 0 THEN Local("panic", stor, st)
           ELSE IF conf.mode = "Foreground"
           THEN [Local("ok", stor, st) EXCEPT !.hint = PlotHint(conf, st.id)]
           ELSE Sending(Req("Stop", st.id, ""), stor, st.args)

\* the launcher asks the agent to stop a foreground process too
stop_begin_always_send(conf, st, stor) ==
    CASE conf.kind \in {"sleep", "lookup_paths"} -> Local("ok", stor, st)
      [] conf.kind = "poller" ->
           IF st.id = 0 THEN Local("error", stor, st)
           ELSE Sending(Req("Stop", st.id, ""), stor, st.args)
      [] OTHER ->
           IF st.id = 0 THEN Local("panic", stor, st)
           ELSE Sending(Req("Stop", st.id, ""), stor, st.args)

\* Activity::stop up to its first blocking call
stop_begin(conf, st, stor) ==
    CASE conf.kind \in {"sleep", "lookup_paths"} -> Local("ok", stor, st)
      [] conf.kind = "poller" ->
           IF st.id = 0 THEN Local("error", stor, st)
           ELSE Sending(Req("Stop", st.id, ""), stor, st.args)
      [] OTHER ->
           IF st.id = 0 THEN Local("panic", stor, st)
           ELSE IF conf.mode = "Foreground"
           THEN [Local("ok", stor, st) EXCEPT !.hint = PlotHint(conf, st.id)]
           ELSE Sending(Req("Stop", st.id, ""), stor, st.args)

\* Activity::start from the response on: "ok" with the Id to keep, "error"
\* (start returns Err), "protocol" (the unreachable! arm), "panic" (an assertion)
start_finish(conf, st, rsp, stor) ==
    CASE conf.kind = "poller" ->
           IF rsp.tag # "Poll" THEN Result("protocol", 0, stor)
           ELSE IF rsp.ok THEN Result("ok", rsp.id, stor)
           ELSE Result("error", 0, stor)
      [] conf.kind = "lookup_paths" ->
           IF rsp.tag # "LookupPaths" THEN Result("protocol", 0, stor)
           ELSE IF ~rsp.ok THEN Result("error", 0, stor)
           ELSE LET paths == [i \in 1..Len(rsp.arg) |-> to_string_lossy(rsp.arg[i])]
                    written == set(stor, conf.out, paths)
                IN  Result(IF written.ok THEN "ok" ELSE "panic", 0, written.st)
      [] OTHER ->
           CASE rsp.tag = "SpawnFg" ->
                  IF conf.mode # "Foreground" THEN Result("panic", 0, stor)
                  ELSE IF rsp.ok THEN Result("ok", rsp.id, stor)
                  ELSE Result("error", 0, stor)
             [] rsp.tag = "SpawnBg" ->
                  IF conf.mode = "Foreground" THEN Result("panic", 0, stor)
                  ELSE IF rsp.ok THEN Result("ok", rsp.id, stor)
                  ELSE Result("error", 0, stor)
             [] OTHER -> Result("protocol", 0, stor)

\* Activity::stop from the response on
stop_finish(conf, st, rsp, stor) ==
    IF rsp.tag # "Stop" THEN Result("protocol", st.id, stor)
    ELSE IF ~rsp.ok THEN Result("error", st.id, stor)
    ELSE IF rsp.id # st.id THEN Result("panic", st.id, stor)
    ELSE [Result("ok", st.id, stor) EXCEPT !.hint = PlotHint(conf, st.id)]

Begin(phase, conf, st, stor) ==
    IF phase = "stop" THEN stop_begin(conf, st, stor) ELSE start_begin(conf, st, stor)

Finish(phase, conf, st, rsp, stor) ==
    IF phase = "stop" THEN stop_finish(conf, st, rsp, stor)
    ELSE start_finish(conf, st, rsp, stor)

\* the activity has sent its request and goes on without reading the answer
after_send_norecv(w) == [w EXCEPT !.todo = Tail(@)]

\* conn.send(..)?; conn.recv(): after a send the thread blocks in recv
after_send(w) == [w EXCEPT !.pc = "await"]

\* the join loop returns as soon as one worker has finished
all_joined_any(w, parts) == \E a \in parts : w[a].pc \in {"done", "panicked"}

\* thread::scope returns when every worker thread of the stage has finished
all_joined(w, parts) == \A a \in parts : w[a].pc \in {"done", "panicked"}

\* runtime.reverse() is missing
stop_stage_order_same(order) == order

\* runtime.reverse()
stop_stage_order(order) == Reverse(order)

\* the chain is walked backwards in the start phase too
chain_order_reversed(phase, n) == Reverse([i \in 1..n |-> i])

\* chain.reverse() is missing
chain_order_forward(phase, n) == [i \in 1..n |-> i]

\* chain.reverse() in the stop phase
chain_order(phase, n) ==
    IF phase = "stop" THEN Reverse([i \in 1..n |-> i]) ELSE [i \in 1..n |-> i]

Stage == ctl.order[ctl.pos]

Parts == DOMAIN Runtime[Stage]

Cur(a) == <<Stage, a, Head(worker[a].todo)>>

InScope == ctl.phase \in {"start", "stop"} /\ ctl.scope = "running"

MarkBegun(k) ==
    IF ctl.phase = "stop" THEN [hist EXCEPT !.stopped = @ \cup {k}]
    ELSE [hist EXCEPT !.started = @ \cup {k}]

MarkDone(h, k) ==
    IF ctl.phase = "stop" THEN [h EXCEPT !.stopdone = @ \cup {k}]
    ELSE [h EXCEPT !.startdone = @ \cup {k}]

\* the worker thread panics (unwrap of an Err, unreachable!, an assertion)
\* while it holds the guard of its connection mutex
WorkerPanics(a, exc) ==
    /\ worker' = [worker EXCEPT ![a].pc = "panicked", ![a].exc = exc]
    /\ lock' = [lock EXCEPT ![a] = "poisoned"]

\* run ends without Ok: it returns Err (res "err") or its thread unwinds
\* (res "panic"); either way the connections it owns are dropped
RunEnds(res) ==
    /\ ctl' = [ctl EXCEPT !.phase = "done", !.result = res, !.failed = ctl.phase,
                          !.scope = "idle", !.cur = ""]
    /\ chan' = [a \in Agents |-> [chan[a] EXCEPT !.open = FALSE]]

\* run returns Err
RunFails == RunEnds("err")

\* what thread::scope gives when a worker of the stage has panicked: the join
\* loop returns Err at the first handle whose thread panicked and drops the
\* handles after it unjoined; the scope then waits for those threads itself
\* and panics ("a scoped thread panicked") if one of them has panicked
scope_result(w, parts) ==
    IF Cardinality({a \in parts : w[a].pc = "panicked"}) > 1 THEN "panic" ELSE "err"

\* thread::scope of one stage: the chains are set up (reversed in the stop
\* phase) and one worker per agent of the stage is spawned
ScopeSpawn ==
    /\ ctl.phase \in {"start", "stop"}
    /\ ctl.scope = "idle"
    /\ worker' = [a \in Agents |->
                    IF a \in Parts
                    THEN [pc |-> "spawned",
                          todo |-> chain_order(ctl.phase, Len(Runtime[Stage][a])),
                          exc |-> "none", hints |-> <<>>]
                    ELSE IdleWorker]
    /\ ctl' = [ctl EXCEPT !.scope = "running"]
    /\ UNCHANGED <<agent, lock, chan, wire, act, store, hist, fs, call, thread, proto>>

\* conn.lock().unwrap() at the top of the worker closure
WorkerLock(a) ==
    /\ InScope
    /\ worker[a].pc = "spawned"
    /\ lock[a] # "held"
    /\ IF lock[a] = "poisoned"
       THEN worker' = [worker EXCEPT ![a].pc = "panicked", ![a].exc = "panic"] /\ lock' = lock
       ELSE worker' = [worker EXCEPT ![a].pc = "running"] /\ lock' = [lock EXCEPT ![a] = "held"]
    /\ UNCHANGED <<agent, ctl, chan, wire, act, store, hist, fs, call, thread, proto>>

\* an activity whose start or stop exchanges no message (sleep; the default
\* stop; stop of a foreground launcher; a failure before anything is sent)
ActivityLocal(a) ==
    /\ InScope
    /\ worker[a].pc = "running"
    /\ worker[a].todo # <<>>
    /\ LET k == Cur(a)
           b == Begin(ctl.phase, ConfOf(k), act[k], store)
       IN  /\ b.do # "send"
           /\ store' = b.stor
           /\ IF b.do = "ok"
              THEN /\ worker' = [worker EXCEPT ![a].todo = Tail(@), ![a].hints = @ \o b.hint]
                   /\ hist' = MarkDone(MarkBegun(k), k)
                   /\ lock' = lock
              ELSE /\ WorkerPanics(a, b.do)
                   /\ hist' = MarkBegun(k)
    /\ UNCHANGED <<agent, ctl, chan, wire, act, fs, call, thread, proto>>

\* the send half of start/stop; iostat first reads its devices from the store
ActivitySend(a) ==
    /\ InScope
    /\ worker[a].pc = "running"
    /\ worker[a].todo # <<>>
    /\ LET k == Cur(a)
           b == Begin(ctl.phase, ConfOf(k), act[k], store)
       IN  /\ b.do = "send"
           /\ hist' = MarkBegun(k)
           /\ act' = [act EXCEPT ![k].args = b.args]
           /\ store' = b.stor
           /\ \E sent \in (IF agent[a].st = "active" THEN {TRUE} ELSE {TRUE, FALSE}) :
                 IF sent
                 THEN /\ chan' = [chan EXCEPT ![a].req = Append(@, b.req)]
                      /\ wire' = [wire EXCEPT ![a] = Append(@, [dir |-> "send", tag |-> b.req.tag])]
                      /\ worker' = [worker EXCEPT ![a] = after_send(@)]
                      /\ lock' = lock
                 ELSE /\ chan' = chan
                      /\ wire' = [wire EXCEPT ![a] = Append(@, [dir |-> "senderr", tag |-> b.req.tag])]
                      /\ WorkerPanics(a, "error")
    /\ UNCHANGED <<agent, ctl, fs, call, thread, proto>>

\* the recv half of start/stop and what the activity makes of the response
ActivityRecv(a) ==
    /\ InScope
    /\ worker[a].pc = "await"
    /\ LET k == Cur(a)
           conf == ConfOf(k)
       IN  IF chan[a].rsp # <<>>
           THEN LET rsp == Head(chan[a].rsp)
                    f == Finish(ctl.phase, conf, act[k], rsp, store)
                IN  /\ chan' = [chan EXCEPT ![a].rsp = Tail(@)]
                    /\ wire' = [wire EXCEPT ![a] = Append(@, [dir |-> "recv", tag |-> rsp.tag])]
                    /\ store' = f.stor
                    /\ IF f.res = "ok"
                       THEN /\ worker' = [worker EXCEPT ![a].pc = "running", ![a].todo = Tail(@),
                                                        ![a].hints = @ \o f.hint]
                            /\ lock' = lock
                            /\ act' = [act EXCEPT ![k].id = f.id]
                            /\ hist' = MarkDone(hist, k)
                       ELSE /\ WorkerPanics(a, f.res)
                            /\ UNCHANGED <<act, hist>>
           ELSE /\ agent[a].st # "active"
                /\ wire' = [wire EXCEPT ![a] = Append(@, [dir |-> "recverr", tag |-> ""])]
                /\ WorkerPanics(a, "error")
                /\ UNCHANGED <<chan, act, store, hist>>
    /\ UNCHANGED <<agent, ctl, fs, call, thread, proto>>

\* the worker closure returns: the guard is dropped
WorkerExit(a) ==
    /\ InScope
    /\ worker[a].pc = "running"
    /\ worker[a].todo = <<>>
    /\ worker' = [worker EXCEPT ![a].pc = "done"]
    /\ lock' = [lock EXCEPT ![a] = "free"]
    /\ UNCHANGED <<agent, ctl, chan, wire, act, store, hist, fs, call, thread, proto>>

\* the result of the stop scope of one stage: for every agent of the stage
\* the hints its worker returned
StageHints == [a \in Parts |-> worker[a].hints]

\* the end of thread::scope: every worker is joined; a panicked worker makes
\* run return Err, otherwise run goes on to the next stage or phase
ScopeJoin ==
    /\ InScope
    /\ all_joined(worker, Parts)
    /\ worker' = [a \in Agents |-> IdleWorker]
    /\ IF \E a \in Parts : worker[a].pc = "panicked"
       THEN RunEnds(scope_result(worker, Parts))
       ELSE /\ chan' = chan
            /\ ctl' = CASE ctl.pos < Len(ctl.order) ->
                             [ctl EXCEPT !.pos = @ + 1, !.scope = "idle",
                                         !.hints = IF ctl.phase = "stop"
                                                   THEN Append(@, StageHints) ELSE @]
                        [] ctl.phase = "start" ->
                             [ctl EXCEPT !.phase = "stop", !.order = stop_stage_order(@),
                                         !.pos = 1, !.scope = "idle"]
                        [] OTHER ->
                             [ctl EXCEPT !.phase = "collect", !.scope = "idle",
                                         !.hints = Append(@, StageHints)]
    /\ UNCHANGED <<agent, lock, wire, act, store, hist, fs, call, thread, proto>>

NoFile == [exists |-> FALSE, data |-> <<>>]

RECURSIVE Digits(_)
Digits(n) ==
    LET d == <<"0", "1", "2", "3", "4", "5", "6", "7", "8", "9">>[(n % 10) + 1]
    IN  IF n < 10 THEN <<d>> ELSE Digits(n \div 10) \o <<d>>

\* {id:03}: the decimal digits of the Id, padded with zeros to width 3
Pad3(id) ==
    LET ds == Digits(id)
    IN  IF Len(ds) >= 3 THEN ds ELSE [i \in 1..(3 - Len(ds)) |-> "0"] \o ds

\* format!("{id:03} {activity} {}", hint or ""): what run writes for one
\* hint, as the sequence of its pieces
map_line(h) == Pad3(h.id) \o <<" ", h.name, " ", IF h.hint = <<>> THEN "" ELSE h.hint[1]>>

RECURSIVE map_lines(_)
map_lines(hints) ==
    IF hints = <<>> THEN <<>> ELSE map_line(Head(hints)) \o map_lines(Tail(hints))

\* the loops over total_hints at the end of run, for the agent a: every stage
\* result that holds a creates (truncates) out.map and writes its hints
RECURSIVE write_map(_, _, _)
write_map(total, a, file) ==
    IF total = <<>> THEN file
    ELSE write_map(Tail(total), a,
                   IF a \in DOMAIN Head(total)
                   THEN [exists |-> TRUE, data |-> map_lines(Head(total)[a])]
                   ELSE file)

\* a communication::Request (kind "request") or communication::Response
\* (kind "response"): its variant, and the fields the variant carries.  ok and
\* strs of a response: Ok with its payload or Err with its message; mode: the
\* SpawnMode of Spawn; num: the Id; strs: pattern, cmd and args, paths, bytes
Msg(kind, tag, ok, num, mode, strs) ==
    [kind |-> kind, tag |-> tag, ok |-> ok, num |-> num, mode |-> mode, strs |-> strs]

NoMsg == Msg("none", "", TRUE, 0, "", <<>>)

\* a scenario file with no agents and no stages
NoConfig == [setup |-> [agents |-> {}], runtime |-> <<>>]

\* no function has been called; before: the store as the call found it,
\* sets: the keys and values of the calls of set that returned, cfg: the
\* scenario file given to verify_config, err: what an error message names,
\* msg and back: a message given to the codec and what came back from the wire,
\* frames and handled: the frames a connection delivers and the messages the
\* receiver takes from them

\* IniLike::default
NoIni == [global |-> <<>>, sections |-> <<>>]

\* ActivityConfig.value: t "None", or the variant of ConfigValue it holds
NoValue == [t |-> "None", ini |-> NoIni]

\* a Launcher not yet built
NoLauncher == [comm |-> "", mode |-> "", args |-> <<>>, hint |-> <<>>]

NoCall ==
    [fn |-> "none", arg |-> <<>>, ok |-> TRUE, ret |-> <<>>,
     before |-> NewStorage, sets |-> EmptyMap, cfg |-> NoConfig, err |-> "",
     msg |-> NoMsg, back |-> NoMsg, frames |-> <<>>, handled |-> <<>>,
     value |-> NoValue, launcher |-> NoLauncher]

\* finalisation, send half of connection::collect_data for the next agent of
\* the connection map (a HashMap: any order)
CollectSend(a) ==
    /\ ctl.phase = "collect"
    /\ ctl.cur = ""
    /\ a \in ctl.left
    /\ lock[a] = "free"
    /\ \E sent \in (IF agent[a].st = "active" THEN {TRUE} ELSE {TRUE, FALSE}) :
          IF sent
          THEN /\ chan' = [chan EXCEPT ![a].req = Append(@, Req("Collect", 0, ""))]
               /\ wire' = [wire EXCEPT ![a] = Append(@, [dir |-> "send", tag |-> "Collect"])]
               /\ ctl' = [ctl EXCEPT !.cur = a]
               /\ lock' = [lock EXCEPT ![a] = "held"]
          ELSE /\ wire' = [wire EXCEPT ![a] = Append(@, [dir |-> "senderr", tag |-> "Collect"])]
               /\ RunFails
               /\ lock' = lock
    /\ UNCHANGED <<agent, worker, act, store, hist, fs, call, thread, proto>>

\* finalisation, recv half of connection::collect_data; the archive and the
\* map file are written and the connection of this agent is dropped
CollectRecv(a) ==
    /\ ctl.phase = "collect"
    /\ ctl.cur = a
    /\ lock' = [lock EXCEPT ![a] = "free"]
    /\ IF chan[a].rsp # <<>>
       THEN LET rsp == Head(chan[a].rsp)
            IN  /\ wire' = [wire EXCEPT ![a] = Append(@, [dir |-> "recv", tag |-> rsp.tag])]
                /\ IF rsp.tag = "Collect" /\ rsp.ok
                   THEN /\ chan' = [chan EXCEPT ![a].rsp = Tail(@), ![a].open = FALSE]
                        /\ ctl' = [ctl EXCEPT !.cur = "", !.left = @ \ {a}]
                        /\ fs' = [fs EXCEPT ![a] = write_map(ctl.hints, a, @)]
                   ELSE RunFails /\ fs' = fs
       ELSE /\ agent[a].st # "active"
            /\ wire' = [wire EXCEPT ![a] = Append(@, [dir |-> "recverr", tag |-> ""])]
            /\ RunFails
            /\ fs' = fs
    /\ UNCHANGED <<agent, worker, act, store, hist, call, thread, proto>>

\* run returns Ok(())
RunReturn ==
    /\ ctl.phase = "collect"
    /\ ctl.cur = ""
    /\ ctl.left = {}
    /\ ctl' = [ctl EXCEPT !.phase = "done", !.result = "ok"]
    /\ UNCHANGED <<agent, worker, lock, chan, wire, act, store, hist, fs, call, thread, proto>>

IsResp(e) == e.ev = "resp"

Outcomes(msg) ==
    CASE msg.tag = "Spawn" -> {"ok", "launch_err", "io_err"}
      [] msg.tag = "Collect" -> {"ok", "tar_err"}
      [] OTHER -> {"ok"}

\* the agent at the other end of the connection: one iteration of serve on
\* the next request of the stream
AgentServe(a) ==
    /\ agent[a].st = "active"
    /\ chan[a].req # <<>>
    /\ \E out \in Outcomes(Head(chan[a].req)) :
          LET next == serve(agent[a], Head(chan[a].req), out)
              sent == SelectSeq(SubSeq(next.log, Len(agent[a].log) + 1, Len(next.log)), IsResp)
          IN  /\ agent' = [agent EXCEPT ![a] = next]
              /\ chan' = [chan EXCEPT ![a].req = Tail(@), ![a].rsp = @ \o sent]
    /\ UNCHANGED <<ctl, worker, lock, wire, act, store, hist, fs, call, thread, proto>>

\* recv_request returns None: the controller has dropped the connection
AgentRecvFail(a) ==
    /\ agent[a].st = "active"
    /\ chan[a].req = <<>>
    /\ ~chan[a].open
    /\ agent' = [agent EXCEPT ![a] = serve(@, Req("None", 0, ""), "ok")]
    /\ UNCHANGED ctlvars

----------------------------------------------------------------------------
(* An agent session driven by a script: selfhosted mode                     *)
(* (src/src/agent/proto_impl.rs)                                            *)

\* one entry of the JSON file: a SelfHostedRequest. arg: the pattern of a
\* Poll, the mode of a Spawn ("none" when the file gives no mode)
Item(type, id, arg) == [type |-> type, id |-> id, arg |-> arg]

\* requests: the vector, last element popped first; file: the script as read;
\* loaded: from_json has run
NoProto ==
    [requests |-> <<>>, current |-> NoReq, stopped |-> FALSE, file |-> <<>>, loaded |-> FALSE]

\* impl From<Option<ExecMode>> for SpawnMode
SpawnModeFrom(mode) ==
    CASE mode = "fg" -> "Foreground"
      [] mode = "bgwait" -> "BackgroundWait"
      [] mode = "bgkill" -> "BackgroundKill"
      [] OTHER -> "Foreground"

\* SelfHostedProtocol::from_json: the list is reversed so that pop takes the
\* first entry of the file
from_json(file) ==
    [requests |-> Reverse(file), current |-> NoReq, stopped |-> FALSE,
     file |-> file, loaded |-> TRUE]

initiate_abort(p) == [p EXCEPT !.requests = Append(@, Item("Abort", 0, ""))]

\* the loop of recv_request: pop until an entry maps to a request; Sleep and
\* Pause are carried out and skipped; an empty vector gives StopAll
RECURSIVE next_request(_)
next_request(p) ==
    IF p.requests = <<>>
    THEN [p |-> [p EXCEPT !.stopped = TRUE], req |-> Req("StopAll", 0, "")]
    ELSE LET item == p.requests[Len(p.requests)]
             rest == [p EXCEPT !.requests = SubSeq(@, 1, Len(@) - 1)]
         IN  CASE item.type = "Poll" -> [p |-> rest, req |-> Req("Poll", 0, item.arg)]
               [] item.type = "Spawn" ->
                    [p |-> rest, req |-> Req("Spawn", 0, SpawnModeFrom(item.arg))]
               [] item.type = "Stop" -> [p |-> rest, req |-> Req("Stop", item.id, "")]
               [] item.type = "Abort" -> [p |-> rest, req |-> Req("Abort", 0, "")]
               [] OTHER -> next_request(rest)

\* SelfHostedProtocol::recv_request
selfhosted_recv_request(p) ==
    IF p.stopped THEN [p |-> p, req |-> Req("End", 0, "")]
    ELSE LET r == next_request(p)
         IN  [p |-> [r.p EXCEPT !.current = r.req], req |-> r.req]

\* SelfHostedProtocol::send_response on the response logged as e
selfhosted_send_response(p, e) ==
    IF e.tag \in {"Poll", "SpawnFg", "SpawnBg", "Stop"} /\ ~e.ok THEN initiate_abort(p) ELSE p

\* the responses the agent sends while it handles one request, in order
RECURSIVE respond(_, _)
respond(p, events) ==
    IF events = <<>> THEN p
    ELSE respond(IF Head(events).ev = "resp" THEN selfhosted_send_response(p, Head(events))
                 ELSE p,
                 Tail(events))

ExecModes == {"none", "fg", "bgwait", "bgkill"}

Items ==
    {Item("Poll", 0, p) : p \in Patterns}
    \cup {Item("Spawn", 0, m) : m \in ExecModes}
    \cup {Item("Stop", id, "") : id \in 1..2}
    \cup {Item("Abort", 0, ""), Item("Sleep", 0, ""), Item("Pause", 0, "")}

Scripts == UNION {[1..n -> Items] : n \in 0..MaxScript}

\* main_selfhosted: the script is read before the agent serves
SelfLoad(file) ==
    /\ ~proto.loaded
    /\ proto' = from_json(file)
    /\ UNCHANGED nonproto

\* one iteration of the loop of Agent::serve over the SelfHostedProtocol:
\* recv_request, the handling of the request, and send_response for every
\* response of the agent
SelfServe(out) ==
    /\ proto.loaded
    /\ agent[Solo].st = "active"
    /\ LET r == selfhosted_recv_request(proto)
           ag == serve(agent[Solo], r.req, out)
           handled == SubSeq(ag.log, Len(agent[Solo].log) + 2, Len(ag.log))
       IN  /\ agent' = [agent EXCEPT ![Solo] = ag]
           /\ proto' = respond(r.p, handled)
    /\ UNCHANGED <<ctl, worker, lock, chan, wire, act, store, hist, fs, call, thread>>

NextSelf ==
    \/ \E file \in Scripts : SelfLoad(file)
    \/ \E out \in {"ok", "launch_err", "io_err"} : SelfServe(out)
    \/ PollerDies(Solo)
    \/ ProcBreaks(Solo)

----------------------------------------------------------------------------
(* The locks of one stage: the workers' connection mutexes and the mutex of *)
(* the artifact store (src/src/controller/storage.rs)                        *)

\* a stage whose two workers both write and read the store
LockStage ==
    [a1 |-> << Conf("lookup_paths", "/p/{x,y}", "", "", "K1", <<>>),
               Conf("iostat", "", "BackgroundKill", "K1", "", <<>>) >>,
     a2 |-> << Conf("lookup_paths", "/p/{x,y}", "", "", "K2", <<>>),
               Conf("iostat", "", "BackgroundKill", "K2", "", <<>>) >>]

LkConf(a) == LockStage[a][Head(worker[a].todo)]

\* the guard of the store's mutex is kept after the call
store_release_never(l) == l

\* the MutexGuard of Storage::set / Storage::get is dropped when the call ends
store_release(l) == [l EXCEPT ![StoreMutex] = "free"]

\* thread::scope of the stage: one worker per agent
LkSpawn ==
    /\ ctl.phase = "start" /\ ctl.scope = "idle"
    /\ worker' = [a \in Agents |->
                    [pc |-> "spawned", todo |-> chain_order("start", Len(LockStage[a])),
                     exc |-> "none", hints |-> <<>>]]
    /\ ctl' = [ctl EXCEPT !.scope = "running"]
    /\ UNCHANGED <<agent, lock, chan, wire, act, store, hist, fs, call, thread, proto>>

\* the worker is about to call stor.get (iostat, before it sends Spawn) or
\* stor.set (lookup_paths, after the response): self.stor.lock().unwrap()
LkStoreLock(a) ==
    /\ InScope
    /\ \/ worker[a].pc = "running" /\ worker[a].todo # <<>> /\ LkConf(a).kind = "iostat"
       \/ worker[a].pc = "got"
    /\ lock[StoreMutex] = "free"
    /\ IF store.poisoned
       THEN WorkerPanics(a, "panic")
       ELSE /\ worker' = [worker EXCEPT ![a].pc = "instore"]
            /\ lock' = [lock EXCEPT ![StoreMutex] = "held"]
    /\ UNCHANGED <<agent, ctl, chan, wire, act, store, hist, fs, call, thread, proto>>

\* the body of Storage::set / Storage::get under the guard, and its return
LkStoreOp(a) ==
    /\ InScope
    /\ worker[a].pc = "instore"
    /\ LET conf == LkConf(a)
           paths == lookup_paths(conf.pattern).paths
           r == IF conf.kind = "iostat" THEN get(store, conf.in)
                ELSE set(store, conf.out, [i \in 1..Len(paths) |-> to_string_lossy(paths[i])])
       IN  /\ store' = r.st
           /\ IF r.ok
              THEN /\ lock' = store_release(lock)
                   /\ worker' = IF conf.kind = "iostat"
                                 THEN [worker EXCEPT ![a].pc = "ready"]
                                 ELSE [worker EXCEPT ![a].pc = "running", ![a].todo = Tail(@)]
              ELSE /\ lock' = [store_release(lock) EXCEPT ![a] = "poisoned"]
                   /\ worker' = [worker EXCEPT ![a].pc = "panicked", ![a].exc = "panic"]
    /\ UNCHANGED <<agent, ctl, chan, wire, act, hist, fs, call, thread, proto>>

\* conn.send of LookupPaths::start and of Launcher::start
LkSend(a) ==
    /\ InScope
    /\ \/ worker[a].pc = "running" /\ worker[a].todo # <<>> /\ LkConf(a).kind = "lookup_paths"
       \/ worker[a].pc = "ready"
    /\ worker' = [worker EXCEPT ![a] = after_send(@)]
    /\ UNCHANGED <<agent, ctl, lock, chan, wire, act, store, hist, fs, call, thread, proto>>

\* conn.recv returns the agent's answer: LookupPaths goes on to stor.set,
\* the launcher has finished its start
LkRecv(a) ==
    /\ InScope
    /\ worker[a].pc = "await"
    /\ worker' = IF LkConf(a).kind = "lookup_paths"
                 THEN [worker EXCEPT ![a].pc = "got"]
                 ELSE [worker EXCEPT ![a].pc = "running", ![a].todo = Tail(@)]
    /\ UNCHANGED <<agent, ctl, lock, chan, wire, act, store, hist, fs, call, thread, proto>>

\* the end of thread::scope
LkJoin ==
    /\ InScope
    /\ all_joined(worker, Agents)
    /\ ctl' = [ctl EXCEPT !.phase = "done", !.scope = "idle",
                          !.result = IF \E a \in Agents : worker[a].pc = "panicked"
                                     THEN scope_result(worker, Agents) ELSE "ok"]
    /\ UNCHANGED <<agent, worker, lock, chan, wire, act, store, hist, fs, call, thread, proto>>

LkWorker(a) ==
    WorkerLock(a) \/ LkStoreLock(a) \/ LkStoreOp(a) \/ LkSend(a) \/ LkRecv(a) \/ WorkerExit(a)

NextLocks ==
    \/ LkSpawn
    \/ LkJoin
    \/ \E a \in Agents :
          \/ WorkerLock(a)
          \/ LkStoreLock(a)
          \/ LkStoreOp(a)
          \/ LkSend(a)
          \/ LkRecv(a)
          \/ WorkerExit(a)

Init ==
    /\ agent = [a \in Agents |-> NewAgent]
    /\ ctl = [phase |-> "start", order |-> [i \in 1..NumStages |-> i], pos |-> 1,
              scope |-> "idle", result |-> "none", failed |-> "none",
              cur |-> "", left |-> Agents, hints |-> <<>>]
    /\ worker = [a \in Agents |-> IdleWorker]
    /\ lock = [m \in Agents \cup {StoreMutex} |-> "free"]
    /\ chan = [a \in Agents |-> [req |-> <<>>, rsp |-> <<>>, open |-> TRUE]]
    /\ wire = [a \in Agents |-> <<>>]
    /\ act = [k \in ActKeys |-> [id |-> 0, args |-> <<>>]]
    /\ store = NewStorage
    /\ fs = [a \in Agents |-> NoFile]
    /\ call = NoCall
    /\ thread = NewThread
    /\ proto = NoProto
    /\ hist = [started |-> {}, startdone |-> {}, stopped |-> {}, stopdone |-> {}]

Next ==
    \/ ScopeSpawn
    \/ ScopeJoin
    \/ RunReturn
    \/ \E a \in Agents :
          \/ WorkerLock(a)
          \/ ActivityLocal(a)
          \/ ActivitySend(a)
          \/ ActivityRecv(a)
          \/ WorkerExit(a)
          \/ CollectSend(a)
          \/ CollectRecv(a)
          \/ AgentServe(a)
          \/ AgentRecvFail(a)
          \/ PollerDies(a)
          \/ ProcBreaks(a)

Spec == Init /\ [][Next]_vars

NextAgent ==
    \/ ServeLookupPaths(Solo)
    \/ ServePoll(Solo)
    \/ ServeSpawn(Solo)
    \/ ServeStop(Solo)
    \/ ServeStopAll(Solo)
    \/ ServeCollect(Solo)
    \/ ServeEnd(Solo)
    \/ ServeAbort(Solo)
    \/ ServeRecvFail(Solo)
    \/ PollerDies(Solo)
    \/ ProcBreaks(Solo)

SpecAgent == Init /\ [][NextAgent]_vars

\* the thread is scheduled and its sleep ends
SpecPoller == Init /\ [][NextPoller]_vars /\ WF_vars(ThreadStep)

\* every worker thread is scheduled, a free mutex is acquired, and the agent
\* answers every request
SpecLocks ==
    Init /\ [][NextLocks]_vars /\ WF_vars(LkSpawn \/ LkJoin) /\ \A a \in Agents : WF_vars(LkWorker(a))

SpecSelf == Init /\ [][NextSelf]_vars

\* the dispatch thread is scheduled, and a join() or wait() that can return does
SpecShutdown == Init /\ [][NextShutdown]_vars /\ WF_vars(ShutStep(Solo))

----------------------------------------------------------------------------
(* The library functions of the controller and the agent, called on their own *)

sysvars == <<agent, ctl, worker, lock, chan, wire, act, hist, fs, thread, proto>>

Keys == {"DEVS", "LOGS", "MNTS"}

Values == {<<"/p/x">>, <<"/p/x", "/p/y">>}

Called(fn, arg, ok, ret) ==
    [fn |-> fn, arg |-> arg, ok |-> ok, ret |-> ret, before |-> store, sets |-> call.sets,
     cfg |-> NoConfig, err |-> "", msg |-> NoMsg, back |-> NoMsg,
     frames |-> <<>>, handled |-> <<>>, value |-> NoValue, launcher |-> NoLauncher]

StorageSet(key, val) ==
    LET r == set(store, key, val)
    IN  /\ store' = r.st
        /\ call' = [Called("set", <<key, val>>, r.ok, <<>>) EXCEPT
                       !.sets = IF r.ok THEN Put(@, key, val) ELSE @]
        /\ UNCHANGED sysvars

StorageGet(key) ==
    LET r == get(store, key)
    IN  /\ store' = r.st
        /\ call' = Called("get", <<key>>, r.ok, r.val)
        /\ UNCHANGED sysvars

\* Result<T>: Ok(val) or Err (the message is not kept)
Ok(val) == [ok |-> TRUE, val |-> val]

Err == [ok |-> FALSE, val |-> <<>>]

\* a serde_yml::Value: its type and its text
Yaml(t, v) == [t |-> t, v |-> v]

\* the single key of a one-entry map
TheKey(map) == CHOOSE k \in DOMAIN map : TRUE

\* YamlValueExtractor::try_extract
try_extract(ext, val) ==
    CASE ext = "TimeDurationSecs" /\ val.t = "Number" -> Ok([t |-> "Time", v |-> val.v])
      [] ext = "String" /\ val.t = "String" -> Ok([t |-> "String", v |-> val.v])
      [] OTHER -> Err

\* SingleArgParser::parse
SingleArgParser(arg_name, arg_type, args) ==
    IF Cardinality(DOMAIN args) # 1 THEN Err
    ELSE IF TheKey(args) # arg_name THEN Err
    ELSE try_extract(arg_type, args[TheKey(args)])

\* MappingArgParser::parse; exp_args: key -> [ext, required]
MappingArgParser(exp_args, input) ==
    CASE \E key \in DOMAIN input : key \notin DOMAIN exp_args -> Err
      [] \E key \in DOMAIN input : ~try_extract(exp_args[key].ext, input[key]).ok -> Err
      [] \E key \in DOMAIN exp_args : exp_args[key].required /\ key \notin DOMAIN input -> Err
      [] OTHER -> Ok([key \in DOMAIN input |-> try_extract(exp_args[key].ext, input[key]).val])

Arg(ext, required) == [ext |-> ext, required |-> required]

\* GenericPollerParser::parse
GenericPollerParser(args) ==
    LET values == MappingArgParser(("pattern" :> Arg("String", TRUE))
                                   @@ ("hint" :> Arg("String", FALSE)), args)
    IN  IF ~values.ok THEN Err
        ELSE Ok([t |-> "PollArgs", pattern |-> values.val["pattern"].v,
                 hint |-> IF "hint" \in DOMAIN values.val
                          THEN <<values.val["hint"].v>> ELSE <<>>])

\* GenericLaunchParser::parse
GenericLaunchParser(args) ==
    LET values == MappingArgParser(("comm" :> Arg("String", TRUE))
                                   @@ ("mode" :> Arg("String", TRUE))
                                   @@ ("hint" :> Arg("String", FALSE)), args)
    IN  IF ~values.ok THEN Err
        ELSE LET mode == values.val["mode"].v
             IN  IF mode \notin {"fg", "bgkill", "bgwait"} THEN Err
                 ELSE Ok([t |-> "LaunchArgs", comm |-> values.val["comm"].v,
                          mode |-> CASE mode = "fg" -> "Foreground"
                                     [] mode = "bgkill" -> "BackgroundKill"
                                     [] OTHER -> "BackgroundWait",
                          hint |-> IF "hint" \in DOMAIN values.val
                                   THEN values.val["hint"].v ELSE ""])

\* the names yaml_parsers::export_all registers a NoArgsParser for
NoArgsNames == {"mpstat", "iostat", "proc_net_dev", "proc_meminfo", "flamegraph"}

\* the keys of the ParserDatabase
ParserNames == NoArgsNames \cup {"sleep", "lookup_paths", "poller", "launch"}

\* the parser registered for name applied to args (a NoArgsParser always fails)
parser(name, args) ==
    CASE name = "sleep" -> SingleArgParser("secs", "TimeDurationSecs", args)
      [] name = "lookup_paths" -> SingleArgParser("pattern", "String", args)
      [] name = "poller" -> GenericPollerParser(args)
      [] name = "launch" -> GenericLaunchParser(args)
      [] OTHER -> Err

\* verify_activity: (name, ActivityConfig {value, input, output})
verify_activity(activity) ==
    IF Cardinality(DOMAIN activity) # 1 THEN Err
    ELSE LET name == TheKey(activity)
             args == activity[name]
             conf(value) == [name |-> name, value |-> value,
                             input |-> args.input, output |-> args.output]
         IN  IF name \notin ParserNames THEN Err
             ELSE IF args.args = <<>> THEN Ok(conf(<<>>))
             ELSE IF parser(name, args.args[1]).ok
             THEN Ok(conf(<<parser(name, args.args[1]).val>>))
             ELSE Err

\* the agents of a stage are not looked up in setup
verify_runtime_stage_anyagent(activities, agents) ==
    IF \E who \in DOMAIN activities :
          \E i \in 1..Len(activities[who]) : ~verify_activity(activities[who][i]).ok
    THEN Err
    ELSE Ok([who \in DOMAIN activities |->
               [i \in 1..Len(activities[who]) |-> verify_activity(activities[who][i]).val]])

\* verify_runtime_stage
verify_runtime_stage(activities, agents) ==
    IF \E who \in DOMAIN activities :
          \/ who \notin agents
          \/ \E i \in 1..Len(activities[who]) : ~verify_activity(activities[who][i]).ok
    THEN Err
    ELSE Ok([who \in DOMAIN activities |->
               [i \in 1..Len(activities[who]) |-> verify_activity(activities[who][i]).val]])

\* verify_runtime_config: every stage is a map with the stage name as its only key
verify_runtime_config(run, agents) ==
    IF run = <<>> THEN Err
    ELSE IF \E i \in 1..Len(run) :
               \/ Cardinality(DOMAIN run[i]) # 1
               \/ ~verify_runtime_stage(run[i][TheKey(run[i])], agents).ok
    THEN Err
    ELSE Ok([i \in 1..Len(run) |-> verify_runtime_stage(run[i][TheKey(run[i])], agents).val])

\* verify_setup_config
verify_setup_config(setup) == IF setup.agents = {} THEN Err ELSE Ok(setup.agents)

verify_config(raw_cfg) ==
    IF ~verify_setup_config(raw_cfg.setup).ok THEN Err
    ELSE verify_runtime_config(raw_cfg.runtime, raw_cfg.setup.agents)

has_artifacts(conf) == conf.input # <<>> \/ conf.output # <<>>

is_empty(conf) == conf.value = <<>> /\ conf.input = <<>> /\ conf.output = <<>>

HasValue(conf, t) == conf.value # <<>> /\ conf.value[1].t = t

\* ActivityConfig::verify_single_artifact: the global name bound to expected_name
verify_single_artifact(bind, expected_name) ==
    IF bind = <<>> THEN Err
    ELSE IF Cardinality(DOMAIN bind[1]) # 1 THEN Err
    ELSE IF TheKey(bind[1]) # expected_name THEN Err
    ELSE Ok(bind[1][expected_name])

\* the creator export_all registers for conf.name, applied to a config that
\* verify_config returned (no parser builds an Ini value, so fio's creator
\* fails on its first match)
creator(conf) ==
    CASE conf.name = "sleep" ->
           IF ~has_artifacts(conf) /\ HasValue(conf, "Time")
           THEN Ok(Conf("sleep", "", "", "", "", <<>>)) ELSE Err
      [] conf.name = "poller" ->
           IF ~has_artifacts(conf) /\ HasValue(conf, "PollArgs")
           THEN Ok(Conf("poller", conf.value[1].pattern, "", "", "", conf.value[1].hint))
           ELSE Err
      [] conf.name \in {"proc_meminfo", "proc_net_dev"} ->
           IF is_empty(conf)
           THEN Ok(Conf("poller", IF conf.name = "proc_meminfo" THEN "/proc/meminfo"
                                  ELSE "/proc/net/dev", "", "", "", <<>>))
           ELSE Err
      [] conf.name = "launch" ->
           IF ~has_artifacts(conf) /\ HasValue(conf, "LaunchArgs")
           THEN Ok(Conf("launch", "", conf.value[1].mode, "", "", <<conf.value[1].hint>>))
           ELSE Err
      [] conf.name \in {"mpstat", "flamegraph"} ->
           IF is_empty(conf)
           THEN Ok(Conf("launch", "", IF conf.name = "mpstat" THEN "BackgroundKill"
                                      ELSE "BackgroundWait", "", "", <<>>))
           ELSE Err
      [] conf.name = "iostat" ->
           IF conf.value # <<>> \/ conf.output # <<>> THEN Err
           ELSE IF conf.input = <<>> THEN Ok(Conf("iostat", "", "BackgroundKill", "", "", <<>>))
           ELSE IF verify_single_artifact(conf.input, "devices").ok
           THEN Ok(Conf("iostat", "", "BackgroundKill",
                        verify_single_artifact(conf.input, "devices").val, "", <<>>))
           ELSE Err
      [] conf.name = "lookup_paths" ->
           IF conf.input # <<>> \/ ~HasValue(conf, "String") THEN Err
           ELSE IF verify_single_artifact(conf.output, "paths").ok
           THEN Ok(Conf("lookup_paths", conf.value[1].v, "", "",
                        verify_single_artifact(conf.output, "paths").val, <<>>))
           ELSE Err
      [] OTHER -> Err

\* create_runtime: every activity config of every chain through its creator
create_runtime(runtime_cfg) ==
    IF \E s \in 1..Len(runtime_cfg) : \E who \in DOMAIN runtime_cfg[s] :
          \E i \in 1..Len(runtime_cfg[s][who]) : ~creator(runtime_cfg[s][who][i]).ok
    THEN Err
    ELSE Ok([s \in 1..Len(runtime_cfg) |->
               [who \in DOMAIN runtime_cfg[s] |->
                  [i \in 1..Len(runtime_cfg[s][who]) |-> creator(runtime_cfg[s][who][i]).val]]])

\* main_wrapper of pmppt_controller: verify_config, then create_runtime; run
\* is called with the runtime only when both succeed
prepare(raw_cfg) ==
    IF verify_config(raw_cfg).ok THEN create_runtime(verify_config(raw_cfg).val) ELSE Err

RawAct(name, args, input, output) ==
    (name :> [args |-> args, input |-> input, output |-> output])

LookupRaw ==
    RawAct("lookup_paths", <<("pattern" :> Yaml("String", "/p/{x,y}"))>>, <<>>,
           <<("paths" :> "DEVS")>>)

IostatRaw == RawAct("iostat", <<>>, <<("devices" :> "DEVS")>>, <<>>)

SleepRaw == RawAct("sleep", <<("secs" :> Yaml("Number", "1"))>>, <<>>, <<>>)

\* raw activities that verify_config and create_runtime accept
GoodActs ==
    { LookupRaw, IostatRaw, SleepRaw,
      RawAct("iostat", <<>>, <<>>, <<>>),
      RawAct("poller", <<("pattern" :> Yaml("String", "/p/{x,y}"))
                         @@ ("hint" :> Yaml("String", "cpu"))>>, <<>>, <<>>),
      RawAct("launch", <<("comm" :> Yaml("String", "dd"))
                         @@ ("mode" :> Yaml("String", "bgwait"))>>, <<>>, <<>>) }

\* one raw activity for each way an activity is turned down
BadActs ==
    { RawAct("sleep", <<("secs" :> Yaml("String", "1"))>>, <<>>, <<>>),
      RawAct("iostat", <<EmptyMap>>, <<>>, <<>>),
      RawAct("iostat", <<>>, <<("disks" :> "DEVS")>>, <<>>),
      RawAct("lookup_paths", <<("pattern" :> Yaml("String", "/p/{x,y}"))>>, <<>>, <<>>),
      RawAct("launch", <<("comm" :> Yaml("String", "dd"))
                         @@ ("mode" :> Yaml("String", "bg"))>>, <<>>, <<>>),
      RawAct("fio", <<>>, <<>>, <<>>),
      LookupRaw @@ SleepRaw,
      EmptyMap }

RawChains ==
    {<<x>> : x \in GoodActs \cup BadActs}
       \cup {<<x, y>> : x, y \in {LookupRaw, IostatRaw, SleepRaw}}

RawStageMaps ==
    {("a1" :> c) : c \in RawChains}
       \cup {("a2" :> <<x>>) : x \in {LookupRaw, IostatRaw, SleepRaw}}
       \cup {("a1" :> <<x>>) @@ ("a2" :> <<y>>) : x, y \in {LookupRaw, IostatRaw}}

RawStages ==
    {("s" :> m) : m \in RawStageMaps}
       \cup {EmptyMap, ("s" :> ("a1" :> <<SleepRaw>>)) @@ ("t" :> ("a1" :> <<SleepRaw>>))}

RawRuntimes == {<<>>} \cup {<<s>> : s \in RawStages} \cup {<<s, t>> : s, t \in RawStages}

RawConfigs ==
    {[setup |-> [agents |-> ids], runtime |-> r] :
        ids \in {{}, {"a1"}, {"a1", "a2"}}, r \in RawRuntimes}

\* a scenario file goes through verify_config and create_runtime
Prepare(raw_cfg) ==
    /\ call.fn = "none"
    /\ call' = [Called("prepare", <<>>, prepare(raw_cfg).ok, <<>>) EXCEPT !.cfg = raw_cfg]
    /\ UNCHANGED <<store, sysvars>>

\* patterns given to Agent::lookup_paths: one or several expansions, each
\* matching one path, several or none, with and without repeated matches
LookupInputs ==
    {"/p/x", "/p/n", "/p/*", "/p/{x,y}", "/p/{y,x}", "/p/{x,n}", "/p/{n,x}",
     "/p/{*,x}", "/p/{n,m}", "/p/{x,n,y}"}

Lookup(pattern) ==
    LET r == lookup_paths(pattern)
    IN  /\ call.fn = "none"
        /\ call' = [Called("lookup_paths", <<pattern>>, r.ok, r.paths) EXCEPT !.err = r.bad]
        /\ UNCHANGED <<store, sysvars>>

\* From<communication::SpawnMode> for msgpack_impl::SpawnMode
SpawnModeToWire(mode) ==
    CASE mode = "Foreground" -> "Foreground"
      [] mode = "BackgroundWait" -> "BackgroundWait"
      [] mode = "BackgroundKill" -> "BackgroundKill"

\* From<msgpack_impl::SpawnMode> for communication::SpawnMode
SpawnModeFromWire(mode) ==
    CASE mode = "Foreground" -> "Foreground"
      [] mode = "BackgroundWait" -> "BackgroundWait"
      [] mode = "BackgroundKill" -> "BackgroundKill"

\* the variants of msgpack_impl::Request and of msgpack_impl::Response
WireRequestTags == {"Poll", "Spawn", "Stop", "StopAll", "Collect", "End", "Abort"}

WireResponseTags == {"Poll", "SpawnFg", "SpawnBg", "Stop", "StopAll", "Collect"}

\* a value of msgpack_impl::Request or msgpack_impl::Response as serde writes
\* it: the name of the variant and its fields in their order
Wire(variant, fields) == [variant |-> variant, fields |-> fields]

\* Id is a u32 and goes to the wire as one
U32(n) == [u32 |-> n]

\* From<communication::Request> for msgpack_impl::Request and
\* From<communication::Response> for msgpack_impl::Response, then serialize;
\* the wire types have no variant for LookupPaths, so such a message has no
\* wire form
encode(msg) ==
    IF msg.kind = "request"
    THEN CASE msg.tag \notin WireRequestTags -> Err
           [] msg.tag = "Poll" -> Ok(Wire("Poll", <<msg.strs>>))
           [] msg.tag = "Spawn" ->
                Ok(Wire("Spawn", <<<<Head(msg.strs)>>, Tail(msg.strs),
                                   <<SpawnModeToWire(msg.mode)>>>>))
           [] msg.tag = "Stop" -> Ok(Wire("Stop", <<U32(msg.num)>>))
           [] OTHER -> Ok(Wire(msg.tag, <<>>))
    ELSE CASE msg.tag \notin WireResponseTags -> Err
           [] ~msg.ok -> Ok(Wire(msg.tag, <<"Err", msg.strs>>))
           [] msg.tag \in {"Poll", "SpawnBg", "Stop"} ->
                Ok(Wire(msg.tag, <<"Ok", U32(msg.num)>>))
           [] OTHER -> Ok(Wire(msg.tag, <<"Ok", msg.strs>>))

\* rmp_serde::from_slice as msgpack_impl::Request (kind "request") or
\* msgpack_impl::Response, then From into the communication type
decode(kind, w) ==
    IF kind = "request"
    THEN CASE w.variant \notin WireRequestTags -> Err
           [] w.variant = "Poll" -> Ok(Msg(kind, "Poll", TRUE, 0, "", w.fields[1]))
           [] w.variant = "Spawn" ->
                Ok(Msg(kind, "Spawn", TRUE, 0, SpawnModeFromWire(w.fields[3][1]),
                       w.fields[1] \o w.fields[2]))
           [] w.variant = "Stop" -> Ok(Msg(kind, "Stop", TRUE, w.fields[1].u32, "", <<>>))
           [] OTHER -> Ok(Msg(kind, w.variant, TRUE, 0, "", <<>>))
    ELSE CASE w.variant \notin WireResponseTags -> Err
           [] w.fields[1] = "Err" -> Ok(Msg(kind, w.variant, FALSE, 0, "", w.fields[2]))
           [] w.variant \in {"Poll", "SpawnBg", "Stop"} ->
                Ok(Msg(kind, w.variant, TRUE, w.fields[2].u32, "", <<>>))
           [] OTHER -> Ok(Msg(kind, w.variant, TRUE, 0, "", w.fields[2]))

\* one message of every variant of communication::Request ...
Requests ==
    {Msg("request", "LookupPaths", TRUE, 0, "", <<"/p/{x,y}">>),
     Msg("request", "Poll", TRUE, 0, "", <<"/p/{x,y}">>),
     Msg("request", "StopAll", TRUE, 0, "", <<>>),
     Msg("request", "Collect", TRUE, 0, "", <<>>),
     Msg("request", "End", TRUE, 0, "", <<>>),
     Msg("request", "Abort", TRUE, 0, "", <<>>)}
       \cup {Msg("request", "Stop", TRUE, id, "", <<>>) : id \in 0..2}
       \cup {Msg("request", "Spawn", TRUE, 0, m, args) :
                m \in SpawnMode, args \in {<<"dd">>, <<"dd", "if=/p/x", "of=/p/y">>}}

\* ... and of communication::Response, with Ok and with Err
Responses ==
    {Msg("response", tag, FALSE, 0, "", <<"failed">>) :
        tag \in {"Poll", "SpawnFg", "SpawnBg", "LookupPaths", "Stop", "StopAll", "Collect"}}
       \cup {Msg("response", tag, TRUE, id, "", <<>>) :
                tag \in {"Poll", "SpawnBg", "Stop"}, id \in 1..2}
       \cup {Msg("response", "LookupPaths", TRUE, 0, "", <<"/p/x", "/p/y">>),
             Msg("response", "SpawnFg", TRUE, 0, "", <<"stdout", "stderr">>),
             Msg("response", "StopAll", TRUE, 0, "", <<>>),
             Msg("response", "Collect", TRUE, 0, "", <<"tgz">>)}

\* a message is sent by one side (Connection::send, AgentOps::send_response)
\* and received by the other (AgentOps::recv_request, Connection::recv)
RoundTrip(msg) ==
    LET w == encode(msg)
        r == IF w.ok THEN decode(msg.kind, w.val) ELSE Err
    IN  /\ call.fn = "none"
        /\ call' = [Called("roundtrip", <<>>, r.ok, <<>>) EXCEPT
                       !.msg = msg, !.back = IF r.ok THEN r.val ELSE NoMsg]
        /\ UNCHANGED <<store, sysvars>>

\* a frame as it reaches the receiver: prefix: how many of the 4 bytes of the
\* length prefix arrive before the stream ends; gib and bytes: the declared
\* length, gib * 2^30 + bytes; short: the stream ends before the declared
\* number of payload bytes; msg: the message whose MsgPack form is the payload
Frame(prefix, gib, bytes, short, msg) ==
    [prefix |-> prefix, gib |-> gib, bytes |-> bytes, short |-> short, msg |-> msg]

\* the payload of a frame: what the sender's serde wrote, also for a variant
\* the receiver's wire types do not have
PayloadOf(frame) ==
    IF encode(frame.msg).ok THEN encode(frame.msg).val
    ELSE Wire(frame.msg.tag, <<"Ok", frame.msg.strs>>)

\* TcpMsgpackProtocol::recv_request (kind "request") and
\* TcpMsgpackConnection::recv (kind "response"): read_exact of the 4-byte
\* prefix, read_exact of as many bytes as it declares, from_slice and From
recv_frame(kind, frame) ==
    CASE frame.prefix < 4 -> Err
      [] frame.short -> Err
      [] OTHER -> decode(kind, PayloadOf(frame))

\* the receiver's use of recv_frame: the loop of Agent::serve, left on the
\* first None, and the activities of controller::run, which returns on the
\* first Err
RECURSIVE receive(_, _)
receive(kind, frames) ==
    IF frames = <<>> THEN <<>>
    ELSE LET r == recv_frame(kind, Head(frames))
         IN  IF r.ok THEN <<r.val>> \o receive(kind, Tail(frames)) ELSE <<>>

\* well-formed frames, and one frame for each way of being malformed: a
\* variant the receiver does not know, a cut prefix, a cut payload, a declared
\* length above 2^31 with the payload cut and with the payload complete (a
\* message as long as declared; its strings are abbreviated here)
Frames(kind) ==
    LET known == IF kind = "request"
                 THEN {Msg(kind, "Poll", TRUE, 0, "", <<"/p/{x,y}">>),
                       Msg(kind, "Stop", TRUE, 1, "", <<>>)}
                 ELSE {Msg(kind, "Poll", TRUE, 1, "", <<>>),
                       Msg(kind, "Collect", TRUE, 0, "", <<"tgz">>)}
        poll == Msg(kind, "Poll", TRUE, IF kind = "request" THEN 0 ELSE 1, "",
                    IF kind = "request" THEN <<"/p/{x,y}">> ELSE <<>>)
    IN  {Frame(4, 0, 16, FALSE, m) : m \in known}
           \cup {Frame(4, 0, 16, FALSE, Msg(kind, tag, TRUE, 0, "", <<"/p/x">>)) :
                    tag \in {"Reboot", "LookupPaths"}}
           \cup {Frame(2, 0, 0, FALSE, poll), Frame(4, 0, 16, TRUE, poll),
                 Frame(4, 2, 16, TRUE, poll), Frame(4, 2, 16, FALSE, poll),
                 Frame(4, 3, 0, FALSE, poll)}

FrameStreams(kind) ==
    {<<f>> : f \in Frames(kind)} \cup {<<f, g>> : f, g \in Frames(kind)}

Receive(kind, frames) ==
    /\ call.fn = "none"
    /\ call' = [Called("receive", <<kind>>, TRUE, <<>>) EXCEPT
                   !.frames = frames, !.handled = receive(kind, frames)]
    /\ UNCHANGED <<store, sysvars>>

\* format!("--{s}") and format!("--name={name}"): the pieces of the string
Dashed(s) == <<"--", s>>

Named(name) == <<"--name=", name>>

\* the lines a fio job file is made of here
Lines == {"ioengine=libaio", "direct=1", "rw=read", "write_bw_log=bw", "write_lat_log=lat"}

\* line.starts_with("write_bw_log=") and the two others: which hint the line
\* feeds, "" for none
LogKind(line) ==
    CASE line = "write_bw_log=bw" -> "bw"
      [] line = "write_lat_log=lat" -> "lat"
      [] OTHER -> ""

\* line.split_once("=").unwrap().1
AfterEq(line) ==
    CASE line = "ioengine=libaio" -> "libaio"
      [] line = "direct=1" -> "1"
      [] line = "rw=read" -> "read"
      [] line = "write_bw_log=bw" -> "bw"
      [] line = "write_lat_log=lat" -> "lat"

\* the body of `for line in &config`: the line is pushed, then its hint
RECURSIVE fio_lines(_, _)
fio_lines(config, acc) ==
    IF config = <<>> THEN acc
    ELSE LET line == Head(config)
             a1 == [acc EXCEPT !.args = Append(@, Dashed(line))]
             a2 == CASE LogKind(line) = "bw" -> [a1 EXCEPT !.bw = Append(@, AfterEq(line))]
                     [] LogKind(line) = "iops" -> [a1 EXCEPT !.iops = Append(@, AfterEq(line))]
                     [] LogKind(line) = "lat" -> [a1 EXCEPT !.lat = Append(@, AfterEq(line))]
                     [] OTHER -> a1
         IN  fio_lines(Tail(config), a2)

\* the body of `for (name, config) in fiocfg.sections`: --name, the loop over
\* the lines, then args.extend_from_slice over the same lines
RECURSIVE fio_sections(_, _)
fio_sections(sections, acc) ==
    IF sections = <<>> THEN acc
    ELSE LET sec == Head(sections)
             named == [acc EXCEPT !.args = Append(@, Named(sec.name))]
             looped == fio_lines(sec.config, named)
             extended == [looped EXCEPT
                            !.args = @ \o [i \in 1..Len(sec.config) |-> Dashed(sec.config[i])]]
         IN  fio_sections(Tail(sections), extended)

\* FioExport::creator; hint: <<>> for None, else the three lists the closure joins
fio_creator(value) ==
    IF value.t # "Ini" THEN Err
    ELSE IF value.ini.sections = <<>> THEN Err
    ELSE LET start == [args |-> [i \in 1..Len(value.ini.global) |-> Dashed(value.ini.global[i])],
                       bw |-> <<>>, iops |-> <<>>, lat |-> <<>>]
             r == fio_sections(value.ini.sections, start)
         IN  Ok([comm |-> "fio", mode |-> "BackgroundWait", args |-> r.args,
                 hint |-> IF r.bw = <<>> /\ r.iops = <<>> /\ r.lat = <<>> THEN <<>>
                          ELSE <<[bw |-> r.bw, iops |-> r.iops, lat |-> r.lat]>>])

Section(name, config) == [name |-> name, config |-> config]

FioSections ==
    LET one == {Section(n, c) : n \in {"job1", "job2"},
                                c \in {<<>>, <<"rw=read">>, <<"rw=read", "write_bw_log=bw">>,
                                       <<"write_lat_log=lat", "direct=1">>}}
    IN  {<<>>} \cup {<<x>> : x \in one} \cup {<<x, y>> : x \in one, y \in one}

FioValues ==
    {NoValue, [t |-> "Time", ini |-> NoIni]}
    \cup {[t |-> "Ini", ini |-> [global |-> g, sections |-> ss]] :
            g \in {<<>>, <<"ioengine=libaio">>, <<"ioengine=libaio", "direct=1">>},
            ss \in FioSections}

FioCreate(value) ==
    LET r == fio_creator(value)
    IN  /\ call.fn = "none"
        /\ call' = [Called("fio", <<>>, r.ok, <<>>) EXCEPT
                       !.value = value, !.launcher = IF r.ok THEN r.val ELSE NoLauncher]
        /\ UNCHANGED <<store, sysvars>>

NextUnit ==
    \/ \E key \in Keys, val \in Values : StorageSet(key, val)
    \/ \E key \in Keys : StorageGet(key)
    \/ \E raw_cfg \in RawConfigs : Prepare(raw_cfg)
    \/ \E pattern \in LookupInputs : Lookup(pattern)
    \/ \E msg \in Requests \cup Responses : RoundTrip(msg)
    \/ \E kind \in {"request", "response"} : \E frames \in FrameStreams(kind) :
          Receive(kind, frames)
    \/ \E value \in FioValues : FioCreate(value)

SpecUnit == Init /\ [][NextUnit]_vars

----------------------------------------------------------------------------
(* Properties of the agent session *)

StopEvs == {"flag", "join", "signal", "wait"}
DoneEvs == {"join", "wait"}
StopAllTags == {"StopAll", "End", "Abort", "None"}
Terminal == {"End", "Abort", "None"}

Live(ag) == (DOMAIN ag.polls) \cup (DOMAIN ag.procs)

\* index of the request during whose handling entry i was logged
SegStart(log, i) ==
    CHOOSE k \in 1..i : log[k].ev = "recv" /\ \A m \in (k+1)..i : log[m].ev # "recv"

\* the entries logged while handling the request received at index k
Seg(log, k) ==
    {i \in (k+1)..Len(log) : \A m \in (k+1)..i : log[m].ev # "recv"}

IsStopAllStep(a) ==
    LET old == agent[a].log
        new == agent'[a].log
    IN  /\ Len(new) > Len(old)
        /\ new[Len(old) + 1].ev = "recv"
        /\ new[Len(old) + 1].tag \in StopAllTags

ReverseStopStep(a) ==
    LET old == agent[a].log
        new == agent'[a].log
        added == (Len(old) + 1)..Len(new)
    IN  IsStopAllStep(a) =>
          /\ \A x, y \in Live(agent[a]) :
                x < y =>
                  \A i \in added :
                     (new[i].ev \in StopEvs /\ new[i].id = x) =>
                        \E j \in added : j < i /\ new[j].id = y /\ new[j].ev \in DoneEvs
          /\ agent'[a].st # "panicked" =>
                \A x \in Live(agent[a]) :
                   \E i \in added : new[i].id = x /\ new[i].ev \in DoneEvs

\* C1: a stop-all (StopAll, or the one run on End, Abort or a failed receive)
\* stops the live resources one at a time in descending Id order: whenever it
\* touches a resource, every live resource with a larger Id has already been
\* joined or waited for, and unless it panics it stops every live resource.
C1_ReverseStop == [][\A a \in Agents : ReverseStopStep(a)]_vars

C1_Witness ==
    \E a \in Agents :
       LET log == agent[a].log
       IN  \E i, j \in 1..Len(log) :
              /\ i < j
              /\ log[i].ev = "wait" /\ log[j].ev = "join"
              /\ log[i].id > log[j].id
              /\ SegStart(log, i) = SegStart(log, j)
              /\ log[SegStart(log, i)].tag \in StopAllTags

IsIdResp(e) == e.ev = "resp" /\ e.ok /\ e.tag \in {"Poll", "SpawnFg", "SpawnBg"}

\* responses of requests that reached get_next_id: every Spawn, and every
\* Poll whose pattern resolved
IsAllocResp(e) ==
    e.ev = "resp" /\ (e.tag \in {"SpawnFg", "SpawnBg"} \/ (e.tag = "Poll" /\ e.ok))

ReturnedIds(log) == SelectSeq(log, IsIdResp)

\* C2 as stated: the Ids returned in successful responses are 1, 2, 3, ...
C2_Original ==
    \A a \in Agents :
       \A k \in 1..Len(ReturnedIds(agent[a].log)) : ReturnedIds(agent[a].log)[k].id = k

\* C2 amended: the Ids returned in successful Poll, SpawnBg and SpawnFg
\* responses are strictly increasing, and each equals the number of requests
\* that have allocated an Id so far (every resolved Poll and every Spawn,
\* failed or not); a Spawn whose launch fails consumes an Id.
C2_Amended ==
    \A a \in Agents :
       LET log == agent[a].log
       IN  /\ \A i \in 1..Len(log) :
                IsIdResp(log[i]) =>
                   log[i].id = Cardinality({j \in 1..i : IsAllocResp(log[j])})
           /\ \A i, j \in 1..Len(log) :
                (i < j /\ IsIdResp(log[i]) /\ IsIdResp(log[j])) => log[i].id < log[j].id

C2_Witness ==
    \E a \in Agents :
       LET log == agent[a].log
       IN  \E i, j \in 1..Len(log) :
              /\ i < j
              /\ log[i].ev = "resp" /\ log[i].tag = "SpawnBg" /\ ~log[i].ok
              /\ IsIdResp(log[j]) /\ log[j].id = 2

RespTag(req) ==
    CASE req.tag = "Spawn" -> IF req.arg = "Foreground" THEN "SpawnFg" ELSE "SpawnBg"
      [] OTHER -> req.tag

Resps(log, k) == {i \in Seg(log, k) : log[i].ev = "resp"}

Panicked(log, k) == \E i \in Seg(log, k) : log[i].ev = "panic"

\* C4: every request other than End and Abort that the agent has received has
\* got exactly one response, of the matching variant; End and Abort get none.
C4_Original ==
    \A a \in Agents :
       LET log == agent[a].log
       IN  \A k \in 1..Len(log) :
              log[k].ev = "recv" =>
                 IF log[k].tag \in Terminal
                 THEN Resps(log, k) = {}
                 ELSE /\ Cardinality(Resps(log, k)) = 1
                      /\ \A i \in Resps(log, k) : log[i].tag = RespTag(log[k])

\* C11 as stated: a Spawn whose handling meets a local failure (launch, log
\* file, data directory) is answered with the Err payload of its SpawnFg or
\* SpawnBg response, and the agent does not die over it.
C11_Original ==
    \A a \in Agents :
       LET log == agent[a].log
       IN  \A k \in 1..Len(log) :
              (/\ log[k].ev = "recv" /\ log[k].tag = "Spawn"
               /\ \E i \in Seg(log, k) : log[i].ev = "fail")
              => /\ \E i \in Resps(log, k) : log[i].tag = RespTag(log[k]) /\ ~log[i].ok
                 /\ ~Panicked(log, k)

IsLiveResp(e, tag, id) == e.ev = "resp" /\ e.ok /\ e.tag = tag /\ e.id = id

\* the Poll, SpawnFg and SpawnBg responses that returned Id id
Allocs(log, id) == {i \in 1..Len(log) : IsIdResp(log[i]) /\ log[i].id = id}

\* C12: the key sets of the poller map and of the process map are disjoint,
\* every key lies in 1..count, and every key was returned by exactly one
\* successful response: a Poll for a poller, a SpawnBg for a process.
C12_DisjointKeys ==
    \A a \in Agents :
       LET ag == agent[a]
       IN  /\ (DOMAIN ag.polls) \cap (DOMAIN ag.procs) = {}
           /\ Live(ag) \subseteq 1..ag.count
           /\ \A x \in Live(ag) : Cardinality(Allocs(ag.log, x)) = 1
           /\ \A x \in DOMAIN ag.polls :
                 \E i \in 1..Len(ag.log) : IsLiveResp(ag.log[i], "Poll", x)
           /\ \A x \in DOMAIN ag.procs :
                 \E i \in 1..Len(ag.log) : IsLiveResp(ag.log[i], "SpawnBg", x)

C12_Witness ==
    \E a \in Agents :
       /\ DOMAIN agent[a].polls # {}
       /\ DOMAIN agent[a].procs # {}
       /\ agent[a].count > Cardinality(Live(agent[a]))

LastIsCollect(log) ==
    Len(log) > 0 /\ log[Len(log)].ev = "resp" /\ log[Len(log)].tag = "Collect"

\* C7: when the agent has just produced a Collect response, its poller map
\* and its process map are both empty.
C7_CollectEmpty ==
    \A a \in Agents : LastIsCollect(agent[a].log) => Live(agent[a]) = {}

C7_Witness ==
    \E a \in Agents :
       /\ LastIsCollect(agent[a].log)
       /\ \E i \in 1..Len(agent[a].log) : agent[a].log[i].ev \in DoneEvs

\* the mode of the Spawn request that was answered with SpawnBg(Ok(id))
ModeOf(log, id) ==
    LET i == CHOOSE i \in 2..Len(log) :
                log[i].ev = "resp" /\ log[i].tag = "SpawnBg" /\ log[i].ok /\ log[i].id = id
    IN  log[i - 1].arg

MustSignal(log, j) ==
    \/ ModeOf(log, log[j].id) = "BackgroundKill"
    \/ log[SegStart(log, j)].tag \in {"Abort", "None"}

\* C8: a background process is sent the terminate signal exactly when it is
\* BackgroundKill or the stop belongs to an emergency shutdown (Abort, failed
\* receive); the signal is followed at once by the wait, and Stop(Ok(id)) is
\* sent only after the wait.
C8_SignalIffKillOrEmergency ==
    \A a \in Agents :
       LET log == agent[a].log
       IN  \A j \in 1..Len(log) :
              /\ log[j].ev = "wait" =>
                    (log[j - 1].ev = "signal" /\ log[j - 1].id = log[j].id)
                       <=> MustSignal(log, j)
              /\ log[j].ev = "signal" =>
                    /\ MustSignal(log, j)
                    /\ j < Len(log)
                    /\ \/ log[j + 1].ev = "wait" /\ log[j + 1].id = log[j].id
                       \/ log[j + 1].ev = "panic"
              /\ (log[j].ev = "resp" /\ log[j].tag = "Stop" /\ log[j].ok) =>
                    \/ log[j - 1].ev = "wait" /\ log[j - 1].id = log[j].id
                    \/ log[j - 1].ev = "join" /\ log[j - 1].id = log[j].id

C8_Witness ==
    \E a \in Agents :
       LET log == agent[a].log
       IN  /\ \E j \in 1..Len(log) :
                /\ log[j].ev = "signal"
                /\ ModeOf(log, log[j].id) = "BackgroundWait"
                /\ log[SegStart(log, j)].tag = "Abort"
                /\ j < Len(log) /\ log[j + 1].ev = "wait"
           /\ \E j \in 1..Len(log) :
                /\ log[j].ev = "wait"
                /\ ModeOf(log, log[j].id) = "BackgroundWait"
                /\ log[j - 1].ev # "signal"

\* the entry logged first in this step, when it is a received request
NewRecv(a) ==
    /\ Len(agent'[a].log) > Len(agent[a].log)
    /\ agent'[a].log[Len(agent[a].log) + 1].ev = "recv"

Received(a) == agent'[a].log[Len(agent[a].log) + 1]

\* what the step logs after the request it received
Handled(a) == SubSeq(agent'[a].log, Len(agent[a].log) + 2, Len(agent'[a].log))

\* C16: a Stop{id} whose id is in neither map is answered with a Stop error
\* and nothing else, the counter and both maps stay as they were, and the
\* agent is still serving afterwards.
C16_StopUnknownIsError ==
    [][\A a \in Agents :
          (NewRecv(a) /\ Received(a).tag = "Stop" /\ Received(a).id \notin Live(agent[a]))
             => /\ Handled(a) = <<Ev("resp", "Stop", FALSE, 0, <<>>)>>
                /\ agent'[a].count = agent[a].count
                /\ agent'[a].polls = agent[a].polls
                /\ agent'[a].procs = agent[a].procs
                /\ agent'[a].st = "active"]_vars

\* a Stop error for the id of a foreground process, and a request served after it
C16_Witness ==
    \E a \in Agents :
       LET log == agent[a].log
       IN  \E i, j, k \in 1..Len(log) :
              /\ i < j /\ j < k
              /\ log[i].ev = "resp" /\ log[i].tag = "SpawnFg" /\ log[i].ok
              /\ log[j].ev = "resp" /\ log[j].tag = "Stop" /\ ~log[j].ok
              /\ log[j - 1].ev = "recv" /\ log[j - 1].id = log[i].id
              /\ log[k].ev = "resp" /\ log[k].tag # "Stop"

Stopped(seg, id) == {i \in 1..Len(seg) : seg[i].ev \in DoneEvs /\ seg[i].id = id}

Signalled(seg) == {seg[i].id : i \in {j \in 1..Len(seg) : seg[j].ev = "signal"}}

\* C17: End, Abort and a failed receive end the session: the agent was
\* active, the step sends no response and receives nothing more, and unless
\* the teardown panics it stops every live resource exactly once (signalling
\* every process on Abort or a failed receive, and only the BackgroundKill ones
\* on End) and leaves the agent closed with both maps empty.  A session that
\* is over never changes again, and any other request leaves it active unless
\* its handler panics.
C17_SessionLifecycle ==
    [][\A a \in Agents :
          /\ agent[a].st # "active" => agent'[a] = agent[a]
          /\ (NewRecv(a) /\ Received(a).tag \notin Terminal)
                => agent'[a].st \in {"active", "panicked"}
          /\ (NewRecv(a) /\ Received(a).tag \in Terminal)
                => /\ agent[a].st = "active"
                   /\ agent'[a].st \in {"closed", "panicked"}
                   /\ \A i \in 1..Len(Handled(a)) : Handled(a)[i].ev \notin {"recv", "resp"}
                   /\ agent'[a].st = "closed"
                         => /\ Live(agent'[a]) = {}
                            /\ \A id \in 1..agent[a].count :
                                  Cardinality(Stopped(Handled(a), id))
                                     = IF id \in Live(agent[a]) THEN 1 ELSE 0
                            /\ Signalled(Handled(a))
                                  = IF Received(a).tag = "End"
                                    THEN {id \in DOMAIN agent[a].procs :
                                             ~agent[a].procs[id].wait4}
                                    ELSE DOMAIN agent[a].procs]_vars

\* a closed session whose graceful teardown waited for a BackgroundWait
\* process without signalling it, after a request that was served
C17_Witness ==
    \E a \in Agents :
       LET log == agent[a].log
       IN  /\ agent[a].st = "closed"
           /\ \E k \in 1..Len(log) :
                 /\ log[k].ev = "recv" /\ log[k].tag = "End"
                 /\ \E i \in 1..(k - 1) : log[i].ev = "resp" /\ log[i].tag = "SpawnBg" /\ log[i].ok
                 /\ \E i \in (k + 1)..Len(log) : log[i].ev = "wait"
                 /\ \A i \in (k + 1)..Len(log) : log[i].ev # "signal"

\* C25 as stated: the step that handles a StopAll leaves both maps empty and
\* sends exactly one response, the StopAll success, whatever was live before
\* it (nothing at all included).
C25_Original ==
    [][\A a \in Agents :
          (NewRecv(a) /\ Received(a).tag = "StopAll")
             => /\ Live(agent'[a]) = {}
                /\ \E i \in 1..Len(Handled(a)) :
                      /\ Handled(a)[i] = Ev("resp", "StopAll", TRUE, 0, <<>>)
                      /\ \A j \in 1..Len(Handled(a)) :
                            Handled(a)[j].ev = "resp" => j = i]_vars

\* the resources a Stop or StopAll request is about
Concerned(ag, req) == IF req.tag = "Stop" THEN {req.id} ELSE Live(ag)

\* resource id of ag was terminated by the entries of seg before index r
Terminated(ag, seg, id, r) ==
    /\ id \in DOMAIN ag.polls =>
          \E f, j \in 1..(r - 1) :
             /\ f < j
             /\ seg[f].ev = "flag" /\ seg[f].id = id
             /\ seg[j].ev = "join" /\ seg[j].id = id
    /\ id \in DOMAIN ag.procs =>
          \E w \in 1..(r - 1) : seg[w].ev = "wait" /\ seg[w].id = id

\* C26: when the agent answers Stop{id} with success, or acknowledges StopAll,
\* every resource concerned was live, has been terminated before the response
\* (a poller flagged and then joined, a process waited for) and is in neither
\* map afterwards.
C26_AckAfterTermination ==
    [][\A a \in Agents :
          (NewRecv(a) /\ Received(a).tag \in {"Stop", "StopAll"})
             => \A r \in 1..Len(Handled(a)) :
                   (Handled(a)[r].ev = "resp" /\ Handled(a)[r].ok)
                      => \A id \in Concerned(agent[a], Received(a)) :
                            /\ id \in Live(agent[a])
                            /\ Terminated(agent[a], Handled(a), id, r)
                            /\ id \notin Live(agent'[a])]_vars

\* a StopAll acknowledged after a process and a poller were stopped
C26_Witness ==
    \E a \in Agents :
       LET log == agent[a].log
           n == Len(log)
       IN  /\ n >= 9
           /\ log[n] = Ev("resp", "StopAll", TRUE, 0, <<>>)
           /\ log[n - 5].ev = "recv" /\ log[n - 5].tag = "StopAll"
           /\ log[n - 4].ev = "signal" /\ log[n - 3].ev = "wait"
           /\ log[n - 2].ev = "flag" /\ log[n - 1].ev = "join"

\* the pattern has expansions and each of them matches a file
Resolves(pattern) ==
    /\ brace_expand(pattern) # <<>>
    /\ \A i \in 1..Len(brace_expand(pattern)) : glob(brace_expand(pattern)[i]) # <<>>

\* C27: a Poll whose pattern does not resolve is answered with a Poll error
\* and nothing else, and the counter and both maps stay as they were; a Poll
\* whose pattern resolves takes the next Id, adds exactly that Id to the
\* poller map, touches no other entry and answers with that Id.
C27_PollFrame ==
    [][\A a \in Agents :
          (NewRecv(a) /\ Received(a).tag = "Poll")
             => IF Resolves(Received(a).arg)
                THEN /\ agent'[a].count = agent[a].count + 1
                     /\ agent'[a].count \notin Live(agent[a])
                     /\ DOMAIN agent'[a].polls = DOMAIN agent[a].polls \cup {agent'[a].count}
                     /\ \A i \in DOMAIN agent[a].polls : agent'[a].polls[i] = agent[a].polls[i]
                     /\ agent'[a].procs = agent[a].procs
                     /\ Handled(a) = <<Ev("resp", "Poll", TRUE, agent'[a].count, <<>>)>>
                ELSE /\ agent'[a].count = agent[a].count
                     /\ agent'[a].polls = agent[a].polls
                     /\ agent'[a].procs = agent[a].procs
                     /\ Handled(a) = <<Ev("resp", "Poll", FALSE, 0, <<>>)>>]_vars

\* a Poll that failed, then a Poll that got Id 1, then one that got Id 2
C27_Witness ==
    \E a \in Agents :
       LET log == agent[a].log
       IN  /\ Len(log) = 6
           /\ log[1].ev = "recv" /\ log[1].tag = "Poll" /\ ~Resolves(log[1].arg)
           /\ log[2] = Ev("resp", "Poll", FALSE, 0, <<>>)
           /\ log[3].ev = "recv" /\ Resolves(log[3].arg)
           /\ log[4] = Ev("resp", "Poll", TRUE, 1, <<>>)
           /\ log[6] = Ev("resp", "Poll", TRUE, 2, <<>>)
           /\ DOMAIN agent[a].polls = {1, 2}
           /\ agent[a].count = 2

IsFgSpawn(e) == e.ev = "recv" /\ e.tag = "Spawn" /\ e.arg = "Foreground"

\* the foreground processes answered so far are in neither map, each was
\* answered after it had exited, and every request received after a foreground
\* Spawn came after the exit of its process (or after its launch had failed)
ForegroundReaped(ag) ==
    \A k \in 1..Len(ag.log) :
       IsFgSpawn(ag.log[k]) =>
          /\ \A r \in Seg(ag.log, k) :
                (ag.log[r].ev = "resp" /\ ag.log[r].ok)
                   => /\ ag.log[r].tag = "SpawnFg"
                      /\ ag.log[r].id \notin Live(ag)
                      /\ \E e \in (k + 1)..(r - 1) :
                            ag.log[e].ev = "exit" /\ ag.log[e].id = ag.log[r].id
          /\ \A m \in (k + 1)..Len(ag.log) :
                ag.log[m].ev = "recv"
                   => \E e \in (k + 1)..(m - 1) : ag.log[e].ev \in {"exit", "fail"}

\* C28: a Spawn in Foreground mode takes the next Id and leaves both maps as
\* they were, so that Id is in neither map; its success response carries that
\* Id and comes after the process has exited, and no request is received
\* between the Spawn and the exit.
C28_ForegroundInline ==
    /\ [](\A a \in Agents : ForegroundReaped(agent[a]))
    /\ [][\A a \in Agents :
             (NewRecv(a) /\ IsFgSpawn(Received(a)))
                => /\ agent'[a].count = agent[a].count + 1
                   /\ agent'[a].procs = agent[a].procs
                   /\ agent'[a].polls = agent[a].polls
                   /\ agent'[a].count \notin Live(agent'[a])
                   /\ \A r \in 1..Len(Handled(a)) :
                         /\ Handled(a)[r].ev # "recv"
                         /\ (Handled(a)[r].ev = "resp" /\ Handled(a)[r].ok)
                               => Handled(a)[r].id = agent'[a].count]_vars

\* a foreground process run while a background one is live, and a request
\* served after it
C28_Witness ==
    \E a \in Agents :
       LET log == agent[a].log
       IN  /\ Len(log) >= 7
           /\ log[2] = Ev("resp", "SpawnBg", TRUE, 1, <<>>)
           /\ IsFgSpawn(log[3])
           /\ log[4].ev = "exit" /\ log[4].id = 2
           /\ log[5] = Ev("resp", "SpawnFg", TRUE, 2, <<>>)
           /\ log[6].ev = "recv"
           /\ agent[a].st = "active"
           /\ Live(agent[a]) = {1}

Leaving(ag) == ag.st \in {"gracing", "aborting"}

\* C35 as stated: with no poller dead on a read error and every process
\* that is only waited for exiting on its own, a session that has left its
\* loop on End, Abort or a failed receive ends Closed with both maps empty.
C35_Original ==
    Leaving(agent[Solo]) ~> (agent[Solo].st = "closed" /\ Live(agent[Solo]) = {})

----------------------------------------------------------------------------
(* Properties of the poller thread *)

\* the pieces of n complete records at the head of data, if data is that
RECURSIVE IsRecords(_, _)
IsRecords(data, n) ==
    IF data = <<>> THEN TRUE
    ELSE /\ Len(data) >= 3 + Len(Srcs)
         /\ data[1] = Stamp(n)
         /\ data[2] = "\n"
         /\ \A k \in 1..Len(Srcs) : data[2 + k] \in Contents(Srcs[k])
         /\ data[3 + Len(Srcs)] = "\n"
         /\ IsRecords(SubSeq(data, 4 + Len(Srcs), Len(data)), n + 1)

\* the file is absent or empty before the header is stored; afterwards it is
\* the header line and whole records only
OutputWellFormed ==
    \/ thread.out = <<>> /\ thread.pc \in {"spawned", "panicked"}
    \/ /\ Len(thread.out) = 2 + thread.written * (3 + Len(Srcs))
       /\ SubSeq(thread.out, 1, 2) = create_header(Srcs)
       /\ IsRecords(SubSeq(thread.out, 3, Len(thread.out)), 1)

\* once the flag is set, only an iteration already begun writes a record
StopObserved ==
    thread.stop =>
       /\ thread.written <= thread.at_stop + 1
       /\ thread.pc = "iterate" => thread.written = thread.at_stop

\* C22: the stop flag is tested at the top of every iteration, so after it is
\* set at most one more record is written (by the iteration in progress) and
\* the thread then ends; the output is at every moment the header line
\* followed by whole records (timestamp line, the contents of the files in
\* order, delimiter).
C22_PollerStops ==
    /\ [](OutputWellFormed /\ StopObserved)
    /\ [][thread.pc = "test" /\ thread.stop => thread'.pc \in {"test", "done"}]_vars
    /\ thread.stop ~> thread.pc \in {"done", "panicked"}

\* the flag was set during the second iteration, which still wrote its
\* record, and the thread has ended after it
C22_Witness ==
    /\ thread.pc = "done"
    /\ thread.at_stop = 1
    /\ thread.written = 2

----------------------------------------------------------------------------
(* Properties of the controller run *)

IsSend(e) == e.dir = "send"

\* the request tags the controller has sent on a connection, in order
Sent(w) == [i \in 1..Len(SelectSeq(w, IsSend)) |-> SelectSeq(w, IsSend)[i].tag]

\* C3: on every connection at most one request is outstanding: a request is
\* sent only as the first message or directly after a response was received.
C3_OneOutstanding ==
    \A a \in Agents :
       /\ Len(chan[a].req) + Len(chan[a].rsp) <= 1
       /\ \A i \in 1..Len(wire[a]) :
             wire[a][i].dir = "send" => (i = 1 \/ wire[a][i - 1].dir = "recv")

C3_Witness ==
    \E a \in Agents :
       \E i, j, k \in 1..Len(wire[a]) :
          /\ i < j /\ j < k
          /\ wire[a][i].dir = "send" /\ wire[a][i].tag = "Poll"
          /\ wire[a][j].dir = "send" /\ wire[a][j].tag = "Stop"
          /\ wire[a][k].dir = "send" /\ wire[a][k].tag = "Collect"

\* C5: in the start phase no activity of a stage begins its start before every
\* activity of every earlier stage, on every agent, has completed its start.
C5_StartBarrier ==
    \A k \in hist.started :
       \A j \in ActKeys : j[1] < k[1] => j \in hist.startdone

C5_Witness ==
    /\ \E k \in hist.started : k[1] = 2 /\ k \notin hist.startdone
    /\ \E a \in Agents : worker[a].pc = "spawned"

\* C6: in the stop phase no activity of a stage begins its stop before every
\* activity of every later stage, on every agent, has completed its stop.
C6_StopBarrier ==
    \A k \in hist.stopped :
       \A j \in ActKeys : j[1] > k[1] => j \in hist.stopdone

C6_Witness ==
    \E k \in hist.stopped : k[1] = 1 /\ k \notin hist.stopdone

Consumers == {k \in ActKeys : ConfOf(k).in # ""}

\* C14: in a scenario whose consumers come after their producer in the same
\* chain or in a later stage, every get of a consumer's start finds the key
\* set: the store is never poisoned by a failed get, and the consumer's
\* arguments end with the value the producer stored.
C14_ConsumerFindsArtifact ==
    \A k \in Consumers \cap hist.started :
       /\ ~store.poisoned
       /\ ConfOf(k).in \in DOMAIN store.stor
       /\ act[k].args = store.stor[ConfOf(k).in]
       /\ act[k].args = <<"/p/x", "/p/y">>

C14_Witness ==
    /\ \E k \in Consumers \cap hist.startdone : k[1] = 1 /\ k[2] = "a2"
    /\ \E k \in Consumers \cap hist.startdone : k[1] = 3 /\ k[2] = "a1"

EndsWith(seq, tail) ==
    /\ Len(seq) >= Len(tail)
    /\ SubSeq(seq, Len(seq) - Len(tail) + 1, Len(seq)) = tail

\* C9 as stated: when run has returned Ok, every agent's connection has
\* carried StopAll, Collect and End, in this order, as its last requests.
C9_Original ==
    ctl.result = "ok" =>
       \A a \in Agents : EndsWith(Sent(wire[a]), <<"StopAll", "Collect", "End">>)

\* C10 as stated: when run has returned Err out of the start phase, every
\* activity whose start had completed has had its stop called, and End has
\* been sent to every agent.
C10_Original ==
    (ctl.result = "err" /\ ctl.failed = "start") =>
       /\ \A k \in hist.startdone : k \in hist.stopped
       /\ \A a \in Agents : \E i \in 1..Len(wire[a]) :
             wire[a][i].dir = "send" /\ wire[a][i].tag = "End"

\* the hints the stops of agent a returned, over all stages
RECURSIVE HintsOf(_, _)
HintsOf(total, a) ==
    IF total = <<>> THEN <<>>
    ELSE (IF a \in DOMAIN Head(total) THEN Head(total)[a] ELSE <<>>)
            \o HintsOf(Tail(total), a)

Occurs(sub, seq) ==
    \E i \in 0..(Len(seq) - Len(sub)) : SubSeq(seq, i + 1, i + Len(sub)) = sub

Newlines(data) == {i \in 1..Len(data) : data[i] = "\n"}

\* C18 as stated: after a successful run, out.map of every agent holds one
\* newline-terminated line (padded id, activity name, hint) for every hint
\* its stops returned, over all stages, and nothing else.
C18_Original ==
    ctl.result = "ok" =>
       \A a \in Agents :
          LET hs == HintsOf(ctl.hints, a)
          IN  /\ Cardinality(Newlines(fs[a].data)) = Len(hs)
              /\ \A k \in 1..Len(hs) : Occurs(map_line(hs[k]) \o <<"\n">>, fs[a].data)

\* the main thread of run holds the connection of a while it collects from it
MainHolds(a) == ctl.phase = "collect" /\ ctl.cur = a

\* C23: while a stage runs, the mutex of an agent's connection is held
\* exactly while the one worker of that agent is inside its chain; a worker
\* exists only for an agent of the stage whose scope is running, so no thread
\* of an earlier stage holds or waits for the mutex and a spawned worker
\* never finds it held.  Outside the stages only the main thread takes it.
C23_SingleWriter ==
    \A a \in Agents :
       /\ worker[a].pc \in {"running", "await"} => lock[a] = "held" /\ ~MainHolds(a)
       /\ lock[a] = "held" => worker[a].pc \in {"running", "await"} \/ MainHolds(a)
       /\ worker[a].pc = "spawned" => lock[a] # "held"
       /\ worker[a].pc # "none" => InScope /\ a \in Parts

\* the workers of two agents are inside their chains at once: a1 holds its
\* connection at the sleep of stage 2 while a2 waits for an answer
C23_Witness ==
    /\ InScope /\ Stage = 2 /\ ctl.phase = "start"
    /\ worker["a1"].pc = "running" /\ lock["a1"] = "held"
    /\ worker["a1"].todo # <<>> /\ ConfOf(Cur("a1")).kind = "sleep"
    /\ worker["a2"].pc = "await" /\ lock["a2"] = "held"

\* the worker of agent a takes a step of the activity at the head of its chain
ActivityStep(a, phase, kind) ==
    /\ InScope /\ ctl.phase = phase
    /\ worker[a].pc \in {"running", "await"}
    /\ worker[a].todo # <<>>
    /\ ConfOf(Cur(a)).kind = kind
    /\ worker'[a] # worker[a]

\* the hint a launcher returns from stop
LauncherHint(k) == [name |-> "launch", id |-> act[k].id, hint |-> ConfOf(k).hint]

\* C29: the Id a launcher keeps is the one its own Spawn response carried
\* and never changes afterwards.  Its stop sends nothing in Foreground mode
\* and returns the hint with that Id at once; otherwise it sends one
\* Stop{id} with that Id, nothing more while it waits, and returns the hint
\* with the same Id when the agent has answered with success.
C29_LauncherStop ==
    /\ [][\A k \in ActKeys :
             (ConfOf(k).kind = "launch" /\ act'[k].id # act[k].id)
                => /\ ActivityStep(k[2], "start", "launch") /\ Cur(k[2]) = k
                   /\ worker[k[2]].pc = "await"
                   /\ Head(chan[k[2]].rsp).tag \in {"SpawnFg", "SpawnBg"}
                   /\ Head(chan[k[2]].rsp).ok
                   /\ act'[k].id = Head(chan[k[2]].rsp).id]_vars
    /\ [][\A a \in Agents :
             ActivityStep(a, "stop", "launch")
                => LET k == Cur(a)
                       w == worker[a]
                   IN  /\ act[k].id > 0
                       /\ (w.pc = "running" /\ ConfOf(k).mode = "Foreground")
                             => /\ chan' = chan /\ wire' = wire
                                /\ worker'[a] = [w EXCEPT !.todo = Tail(@),
                                                          !.hints = Append(@, LauncherHint(k))]
                       /\ (w.pc = "running" /\ ConfOf(k).mode # "Foreground")
                             => \/ /\ chan'[a].req = Append(chan[a].req, Req("Stop", act[k].id, ""))
                                   /\ worker'[a] = [w EXCEPT !.pc = "await"]
                                \/ /\ chan' = chan
                                   /\ worker'[a].pc = "panicked"
                       /\ w.pc = "await"
                             => /\ chan'[a].req = chan[a].req
                                /\ \/ worker'[a].pc = "panicked"
                                   \/ /\ Head(chan[a].rsp) = Ev("resp", "Stop", TRUE, act[k].id, <<>>)
                                      /\ worker'[a] = [w EXCEPT !.pc = "running", !.todo = Tail(@),
                                                                !.hints = Append(@, LauncherHint(k))]]_vars

Sends(a, tag) ==
    Cardinality({i \in 1..Len(wire[a]) : wire[a][i].dir = "send" /\ wire[a][i].tag = tag})

\* the run has stopped every stage: a1's foreground launcher (Id 3) and its
\* background one (Id 2) have both returned their hints, and of the four
\* resources started on a1 three were stopped with a Stop request (iostat,
\* the background launcher, the poller)
C29_Witness ==
    /\ ctl.phase = "collect"
    /\ \E i, j \in 1..Len(ctl.hints) :
          /\ ctl.hints[i]["a1"] = <<[name |-> "launch", id |-> 3, hint |-> <<"fg">>]>>
          /\ \E n \in 1..Len(ctl.hints[j]["a1"]) :
                ctl.hints[j]["a1"][n] = [name |-> "launch", id |-> 2, hint |-> <<"bg">>]
    /\ Sends("a1", "Poll") + Sends("a1", "Spawn") = 4
    /\ Sends("a1", "Stop") = 3

\* the hints of the activities n, n - 1, ..., m + 1 of the chain of agent a in
\* stage s, in that order; sleep and lookup_paths return none
RECURSIVE HintsDownTo(_, _, _, _)
HintsDownTo(s, a, n, m) ==
    IF n <= m THEN <<>>
    ELSE LET k == <<s, a, n>>
         IN  (IF ConfOf(k).kind \in {"sleep", "lookup_paths"} THEN <<>>
              ELSE <<[name |-> ConfOf(k).kind, id |-> act[k].id, hint |-> ConfOf(k).hint]>>)
             \o HintsDownTo(s, a, n - 1, m)

\* C30: in a stage the worker of an agent starts the activities 1, 2, ..., n
\* of the chain in that order and stops them in the order n, ..., 2, 1: an
\* activity is stopped only when every later one of the chain has been
\* stopped, one at a time, and the hints the worker has collected are those
\* of the stopped activities in that reverse order; so are the hints the run
\* keeps for the stage and the agent.
C30_ReverseChainStop ==
    /\ \A a \in Agents :
          (InScope /\ a \in Parts /\ worker[a].pc \in {"running", "await", "done"})
             => LET n == Len(Runtime[Stage][a])
                    m == Len(worker[a].todo)
                    begun == IF ctl.phase = "stop" THEN hist.stopped ELSE hist.started
                    done == IF ctl.phase = "stop" THEN hist.stopdone ELSE hist.startdone
                IN  /\ ctl.phase = "start" => worker[a].todo = [i \in 1..m |-> n - m + i]
                    /\ ctl.phase = "stop" => worker[a].todo = [i \in 1..m |-> m + 1 - i]
                    /\ \A i \in 1..n :
                          LET later == IF ctl.phase = "stop" THEN i > m ELSE i <= n - m
                          IN  /\ <<Stage, a, i>> \in done <=> later
                              /\ <<Stage, a, i>> \in begun
                                    => \/ later
                                       \/ worker[a].pc = "await" /\ i = Head(worker[a].todo)
                    /\ ctl.phase = "stop" => worker[a].hints = HintsDownTo(Stage, a, n, m)
    /\ \A i \in 1..Len(ctl.hints) :
          \A a \in DOMAIN ctl.hints[i] :
             ctl.hints[i][a] = HintsDownTo(ctl.order[i], a, Len(Runtime[ctl.order[i]][a]), 0)

\* a1 has stopped its chain of stage 1: the launcher it started second is
\* stopped first
C30_Witness ==
    /\ InScope /\ ctl.phase = "stop" /\ Stage = 1
    /\ worker["a1"].pc = "done"
    /\ worker["a1"].hints = << [name |-> "launch", id |-> 2, hint |-> <<"bg">>],
                               [name |-> "poller", id |-> 1, hint |-> <<"cpu">>] >>
    /\ worker["a2"].pc = "await"

\* C31: as soon as any activity's stop has been called, the start of every
\* activity of every stage on every agent has completed, and no start is
\* called any more: nothing is stopped while the run is in its start phase.
C31_StartBeforeStop ==
    /\ hist.stopped # {} => hist.startdone = ActKeys /\ hist.started = ActKeys
    /\ ctl.phase = "start" => hist.stopped = {}
    /\ hist.stopped # {} => ctl.phase # "start"

\* the first stop of the run is in progress: the iostat of stage 3 waits for
\* the answer to its Stop
C31_Witness ==
    /\ hist.stopped = {<<3, "a1", 1>>}
    /\ hist.stopdone = {}
    /\ worker["a1"].pc = "await"
    /\ hist.startdone = ActKeys

\* a worker of the stage has ended on the Err of a start or stop
WorkerFailed == InScope /\ \E a \in Parts : worker[a].pc = "panicked" /\ worker[a].exc = "error"

\* C32 as stated: when a worker has ended on the Err of an activity's start
\* or stop, the scope of its stage is the last one, run returns Err when it
\* ends, nothing is started or stopped afterwards and no Collect is sent.
C32_Original ==
    /\ [][WorkerFailed /\ ctl' # ctl => ctl'.phase = "done" /\ ctl'.result = "err"]_vars
    /\ [][ctl.phase = "done" => hist' = hist /\ wire' = wire]_vars
    /\ [](ctl.failed \in {"start", "stop"} => \A a \in Agents : Sends(a, "Collect") = 0)

\* the Ids the agent has registered a poller or a background process under
Registered(log) ==
    {log[i].id : i \in {j \in 1..Len(log) :
                          log[j].ev = "resp" /\ log[j].ok /\ log[j].tag \in {"Poll", "SpawnBg"}}}

\* the Ids the agent has answered a Stop with success for
StopAcked(log) ==
    {log[i].id : i \in {j \in 1..Len(log) :
                          log[j].ev = "resp" /\ log[j].ok /\ log[j].tag = "Stop"}}

\* C34: once the stop phase of run has completed without error, on every
\* agent each poller and background process an activity's start created has
\* been stopped by a Stop{id} the agent answered with success, both maps of
\* the agent are empty, and the agent never panics, so no Collect meets a
\* live resource.
C34_CollectFindsNothingLive ==
    (ctl.phase = "collect" \/ ctl.result = "ok") =>
       \A a \in Agents :
          /\ Live(agent[a]) = {}
          /\ Registered(agent[a].log) \subseteq StopAcked(agent[a].log)
          /\ agent[a].st # "panicked"
          /\ \A i \in 1..Len(agent[a].log) : agent[a].log[i].ev # "panic"

\* a1, which had registered a poller and two background processes, has
\* answered Collect with success, and a2 is being collected
C34_Witness ==
    /\ ctl.phase = "collect" /\ ctl.cur = "a2"
    /\ Registered(agent["a1"].log) = {1, 2, 4}
    /\ \E i \in 1..Len(agent["a1"].log) :
          LET e == agent["a1"].log[i] IN e.ev = "resp" /\ e.tag = "Collect" /\ e.ok
    /\ Registered(agent["a2"].log) = {1, 2}
    /\ \E i \in 1..Len(agent["a2"].log) :
          agent["a2"].log[i].ev = "recv" /\ agent["a2"].log[i].tag = "Collect"

\* the resources of ag whose stop cannot succeed: a poller thread that died,
\* a process that cannot be signalled or waited for
Unstoppable(ag) ==
    {i \in DOMAIN ag.polls : ag.polls[i].dead} \cup {i \in DOMAIN ag.procs : ag.procs[i].broken}

\* id was stopped in the step: its thread joined or its process waited for
StoppedIn(a, id) ==
    \E k \in 1..Len(Handled(a)) :
       Handled(a)[k].ev \in {"join", "wait"} /\ Handled(a)[k].id = id

\* C37 as stated: in a step that runs stop_all (a StopAll request, or the end
\* of the session), when the stop of the resource with Id i fails, every live
\* resource with a smaller Id is still stopped and removed.
C37_Original ==
    [][\A a \in Agents :
          (NewRecv(a) /\ Received(a).tag \in {"StopAll", "End", "Abort", "None"})
             => \A i \in Unstoppable(agent[a]) :
                   \A j \in Live(agent[a]) :
                      j < i => j \notin Live(agent'[a]) /\ StoppedIn(a, j)]_vars

\* the requests the agent has received, in order
Delivered(log) == SelectSeq(log, LAMBDA e : e.ev = "recv")

\* the requests of a script in file order, its local commands left out
RECURSIVE Scripted(_)
Scripted(file) ==
    IF file = <<>> THEN <<>>
    ELSE LET item == Head(file)
         IN  (CASE item.type = "Poll" -> <<Req("Poll", 0, item.arg)>>
                [] item.type = "Spawn" ->
                     <<Req("Spawn", 0, IF item.arg \in {"none", "fg"} THEN "Foreground"
                                       ELSE IF item.arg = "bgwait" THEN "BackgroundWait"
                                       ELSE "BackgroundKill")>>
                [] item.type = "Stop" -> <<Req("Stop", item.id, "")>>
                [] item.type = "Abort" -> <<Req("Abort", 0, "")>>
                [] OTHER -> <<>>)
             \o Scripted(Tail(file))

\* the received requests got are the first requests of want
DeliveredInOrder(got, want) ==
    /\ Len(got) <= Len(want)
    /\ \A i \in 1..Len(got) :
          got[i].tag = want[i].tag /\ got[i].id = want[i].id /\ got[i].arg = want[i].arg

\* the request received at log[k] was a Poll, Spawn or Stop answered with an error
ErrorAnswered(log) ==
    {k \in 1..Len(log) :
        /\ log[k].ev = "recv"
        /\ \E i \in Resps(log, k) :
              ~log[i].ok /\ log[i].tag \in {"Poll", "SpawnFg", "SpawnBg", "Stop"}}

RecvAfter(log, k) == {j \in (k + 1)..Len(log) : log[j].ev = "recv"}

\* the delivery rules of a script that hold whether or not the agent survives
SelfDelivery ==
    LET log == agent[Solo].log
        want == Scripted(proto.file) \o <<Req("StopAll", 0, ""), Req("End", 0, "")>>
    IN  /\ ErrorAnswered(log) = {} => DeliveredInOrder(Delivered(log), want)
        /\ \A k \in ErrorAnswered(log) :
              /\ DeliveredInOrder(Delivered(SubSeq(log, 1, k)), want)
              /\ \A j \in RecvAfter(log, k) :
                    log[j].tag = "Abort" /\ RecvAfter(log, j) = {}
              /\ (RecvAfter(log, k) = {} /\ agent[Solo].st = "active") =>
                    /\ proto.requests # <<>>
                    /\ proto.requests[Len(proto.requests)].type = "Abort"

\* the last two requests the agent received are StopAll and End
EndsWithStopAllEnd(log) ==
    LET got == Delivered(log)
    IN  /\ Len(got) >= 2
        /\ got[Len(got) - 1].tag = "StopAll"
        /\ got[Len(got)].tag = "End"

\* C39 as stated: the agent receives the scripted requests in file order; after
\* an error response to a Poll, Spawn or Stop the next request it receives is
\* Abort and no scripted request follows; and once the script is exhausted
\* without an error the session ends with the agent having received StopAll
\* and then End.
C39_Original ==
    proto.loaded =>
       /\ SelfDelivery
       /\ (proto.stopped /\ agent[Solo].st # "active") =>
             EndsWithStopAllEnd(agent[Solo].log)

InStore == {a \in Agents : worker[a].pc = "instore"}

\* C36: a worker takes the store's mutex only while it holds its own
\* connection's mutex, for one set or get, and at most one worker is inside
\* the store; a worker that has not got its connection's mutex yet does not
\* hold the store's; and every worker that was spawned ends with its whole
\* chain run, whatever the interleaving.
C36_NoLockDeadlock ==
    /\ [](/\ Cardinality(InStore) <= 1
          /\ lock[StoreMutex] = "held" <=> InStore # {}
          /\ \A a \in InStore : lock[a] = "held"
          /\ \A a \in Agents : worker[a].pc = "spawned" => lock[a] = "free")
    /\ [][\A a \in Agents :
             /\ lock'[a] # lock[a] => worker'[a] # worker[a]
             /\ worker[a].pc = "instore" /\ worker'[a] # worker[a]
                   => lock'[StoreMutex] = "free"]_vars
    /\ \A a \in Agents :
          (worker[a].pc = "spawned") ~> (worker[a].pc = "done" /\ worker[a].todo = <<>>)
    /\ <>(ctl.result = "ok")

\* a1 is inside Storage::set while a2, its answer received, waits for the
\* store's mutex
C36_Witness ==
    /\ worker["a1"].pc = "instore" /\ LkConf("a1").kind = "lookup_paths"
    /\ worker["a2"].pc = "got"
    /\ lock = [a1 |-> "held", a2 |-> "held", stor |-> "held"]

----------------------------------------------------------------------------
(* Properties of the library functions *)

SetOnPresentFails ==
    (call.fn = "set" /\ call.arg[1] \in DOMAIN call.before.stor) => ~call.ok

GetOnAbsentFails ==
    (call.fn = "get" /\ call.arg[1] \notin DOMAIN call.before.stor) => ~call.ok

Bound(bind) == IF bind = <<>> THEN {} ELSE {bind[1][k] : k \in DOMAIN bind[1]}

\* every input binding of the verified scenario names an artifact that an
\* output binding earlier in the same chain or in an earlier stage produces
ArtifactOrdered(cfg) ==
    \A s \in 1..Len(cfg) : \A who \in DOMAIN cfg[s] : \A i \in 1..Len(cfg[s][who]) :
       \A art \in Bound(cfg[s][who][i].input) :
          \E s2 \in 1..s : \E who2 \in DOMAIN cfg[s2] : \E i2 \in 1..Len(cfg[s2][who2]) :
             /\ art \in Bound(cfg[s2][who2][i2].output)
             /\ s2 < s \/ (who2 = who /\ i2 < i)

\* C15 as stated: a scenario that verify_config and create_runtime accept
\* satisfies the artifact ordering; one that violates it is rejected.
C15_Original ==
    (call.fn = "prepare" /\ call.ok) => ArtifactOrdered(verify_config(call.cfg).val)

\* the shape the scenario file must have
WellShaped(cfg) ==
    /\ cfg.setup.agents # {}
    /\ cfg.runtime # <<>>
    /\ \A s \in 1..Len(cfg.runtime) :
          /\ Cardinality(DOMAIN cfg.runtime[s]) = 1
          /\ \A name \in DOMAIN cfg.runtime[s] : \A who \in DOMAIN cfg.runtime[s][name] :
                /\ who \in cfg.setup.agents
                /\ \A i \in 1..Len(cfg.runtime[s][name][who]) :
                      Cardinality(DOMAIN cfg.runtime[s][name][who][i]) = 1

\* C24: verify_config accepts a scenario file only if it names at least one
\* agent and one stage, every stage and every activity is a map with one
\* entry, and every agent of a stage is declared in setup; for any other
\* file it returns an error and no runtime is built.
C24_VerifyShape ==
    call.fn = "prepare" =>
       /\ verify_config(call.cfg).ok => WellShaped(call.cfg)
       /\ ~WellShaped(call.cfg) => ~call.ok

\* an accepted scenario of two stages that uses both declared agents
C24_Witness ==
    /\ call.fn = "prepare"
    /\ call.ok
    /\ Len(call.cfg.runtime) = 2
    /\ \E name \in DOMAIN call.cfg.runtime[1] :
          DOMAIN call.cfg.runtime[1][name] = {"a1", "a2"}

\* the reference: the lists glob gives for the expansions, in their order
RECURSIVE Concat(_)
Concat(lists) == IF lists = <<>> THEN <<>> ELSE Head(lists) \o Concat(Tail(lists))

Matches(pattern) ==
    [i \in 1..Len(brace_expand(pattern)) |-> glob(brace_expand(pattern)[i])]

EmptyExpansions(pattern) ==
    {i \in 1..Len(brace_expand(pattern)) : glob(brace_expand(pattern)[i]) = <<>>}

C20_Original ==
    call.fn = "roundtrip" => call.ok /\ call.back = call.msg

\* the variants the protocol defines for a request and for a response
KnownTags(kind) ==
    IF kind = "request"
    THEN {"LookupPaths", "Poll", "Spawn", "Stop", "StopAll", "Collect", "End", "Abort"}
    ELSE {"Poll", "SpawnFg", "SpawnBg", "LookupPaths", "Stop", "StopAll", "Collect"}

\* the declared length is greater than 2^31
AboveLimit(frame) == frame.gib > 2 \/ (frame.gib = 2 /\ frame.bytes > 0)

Malformed(kind, frame) ==
    \/ frame.msg.tag \notin KnownTags(kind)
    \/ frame.prefix < 4
    \/ frame.short
    \/ AboveLimit(frame)

\* C21 as stated: a frame with an unknown variant, a cut prefix or payload,
\* or a declared length above 2^31 is not handled as a message, and no frame
\* after it on the connection is handled.
C21_Original ==
    call.fn = "receive" =>
       \A i \in 1..Len(call.frames) :
          Malformed(call.arg[1], call.frames[i]) => Len(call.handled) < i

\* the argument list the fio activity is to build: the global keys, then for
\* each section its name and its keys
RECURSIVE FioExpected(_)
FioExpected(sections) ==
    IF sections = <<>> THEN <<>>
    ELSE <<<<"--name=", Head(sections).name>>>>
         \o [i \in 1..Len(Head(sections).config) |-> <<"--", Head(sections).config[i]>>]
         \o FioExpected(Tail(sections))

\* C33 as stated: the launcher fio's creator builds runs in BackgroundWait
\* mode and its arguments are every global key once as --key, in order, then
\* for every section in order --name=<section> and every key of the section
\* exactly once as --key, in order.
C33_Original ==
    (call.fn = "fio" /\ call.ok) =>
       /\ call.launcher.mode = "BackgroundWait"
       /\ call.launcher.args =
             [i \in 1..Len(call.value.ini.global) |-> <<"--", call.value.ini.global[i]>>]
             \o FioExpected(call.value.ini.sections)

\* C38 as stated: a set that fails because its key is present leaves the
\* store as it was, and a get of that key afterwards returns the value that
\* was stored before.
C38_Original ==
    (/\ call.fn = "set" /\ ~call.ok
     /\ ~call.before.poisoned
     /\ call.arg[1] \in DOMAIN call.before.stor)
       => /\ store.stor = call.before.stor
          /\ get(store, call.arg[1]).ok
          /\ get(store, call.arg[1]).val = call.before.stor[call.arg[1]]

====
